---- MODULE Spec2Model ----
(***************************************************************************)
(* prayer-times: next-prayer resolution in front of a timetable provider,  *)
(* with a file cache (daily timetables, geolocation).                     *)
(*                                                                         *)
(* Conventions of the model                                                *)
(*  - an instant (time.Time) is a record [ut, loc]: ut the minutes since   *)
(*    00:00 UTC of day 0, loc the name of its time.Location; seconds are   *)
(*    not modelled (every parsed time has second 0);                       *)
(*  - a zone is a fixed offset from UTC (no daylight-saving changes);      *)
(*  - a provider time string is a sequence of one-character strings;       *)
(*  - a latitude or longitude is an integer number of 10^-7 degrees;       *)
(*  - a cache file is named by the string cacheKey hashes: the truncated   *)
(*    SHA-256 is taken to be injective on the keys of the model.           *)
(***************************************************************************)
EXTENDS Integers, Sequences, FiniteSets, TLC

VARIABLES
    clock,      \* the wall clock, time.Now(), in minutes UTC
    files,      \* cache directory: timings file name -> file content
    geoFile,    \* content of geolocation.json, or NoFile
    pc,         \* position of the running command
    inv,        \* locals of the running invocation of runNext
    trace,      \* what the invocation did: provider calls, cache loads, ...
    out,        \* what the invocation printed on stdout
    err,        \* the error the invocation returned ("" for nil)
    call        \* last library call: function, arguments, result

vars == <<clock, files, geoFile, pc, inv, trace, out, err, call>>

sysvars == <<clock, files, geoFile, pc, inv, trace, out, err>>

Nil == [nil |-> TRUE]

----------------------------------------------------------------------------
(* time.Time, time.Location                                                *)

MinutesPerHour == 60

MinutesPerDay == 24 * MinutesPerHour

\* time.LoadLocation: the zones of the model and their offsets in minutes.
\* "" and "UTC" both load as UTC; an unknown name is an error.
ZoneOffsets ==
    [UTC |-> 0, Riyadh |-> 3 * MinutesPerHour, NewYork |-> -(5 * MinutesPerHour)]

KnownZones == DOMAIN ZoneOffsets

LoadLocation(name) ==
    IF name = "" THEN [ok |-> TRUE, loc |-> "UTC"]
    ELSE IF name \in KnownZones THEN [ok |-> TRUE, loc |-> name]
    ELSE [ok |-> FALSE, loc |-> "UTC"]

\* the offset of a zone at the instant ut, as Location.lookup finds it: New York
\* is on daylight saving time from 8 March 2026, 07:00 UTC (day 9 of the model)
ZoneOffset(loc, ut) ==
    IF loc = "NewYork" /\ ut >= 9 * MinutesPerDay + 7 * MinutesPerHour
    THEN ZoneOffsets[loc] + MinutesPerHour
    ELSE ZoneOffsets[loc]

\* floor division, also for negative numerators
FloorDiv(a, b) == IF a >= 0 THEN a \div b ELSE -(((-a) + b - 1) \div b)

\* t.Year(), t.Month(), t.Day(): the calendar day of an instant in its own zone,
\* as a day number
DayOf(t) == FloorDiv(t.ut + ZoneOffset(t.loc, t.ut), MinutesPerDay)

\* t.Hour()*60 + t.Minute() in its own zone
MinuteOfDay(t) == (t.ut + ZoneOffset(t.loc, t.ut)) - DayOf(t) * MinutesPerDay

\* time.Date(y, m, d, hour, min, 0, 0, loc); out-of-range hour and min normalise.
\* The offset is looked up at the wall-clock reading taken as UTC, and looked up
\* again at the instant that offset gives when that instant lies on the other
\* side of a transition
TimeDate(day, hour, min, loc) ==
    LET unix == day * MinutesPerDay + hour * MinutesPerHour + min
        offset == ZoneOffset(loc, unix)
        utc == unix - offset
    IN  [ut |-> IF ZoneOffset(loc, utc) = offset THEN utc
                ELSE unix - ZoneOffset(loc, utc),
         loc |-> loc]

\* t.In(loc)
TimeIn(t, loc) == [ut |-> t.ut, loc |-> loc]

\* t.AddDate(0, 0, days)
AddDays(t, days) == [ut |-> t.ut + days * MinutesPerDay, loc |-> t.loc]

\* t.After(u): strictly later instant, whatever the zones
AfterMutantNotBefore(t, u) == t.ut >= u.ut

After(t, u) == t.ut > u.ut

\* t.Sub(u) in minutes
Sub(t, u) == t.ut - u.ut

\* date.Format("2006-01-02"): the calendar day in the instant's own zone; a date
\* string is the one-element sequence of its day number, and <<>> the empty string
FormatDate(t) == <<DayOf(t)>>

----------------------------------------------------------------------------
(* strings as character sequences                                          *)

Digits == <<"0", "1", "2", "3", "4", "5", "6", "7", "8", "9">>

IsDigit(c) == \E i \in 1..Len(Digits) : Digits[i] = c

DigitVal(c) == (CHOOSE i \in 1..Len(Digits) : Digits[i] = c) - 1

\* unicode.IsSpace on the characters of the model
IsSpace(c) == c \in {" ", "\t"}

RECURSIVE TrimLeft(_)
TrimLeft(s) ==
    IF s # <<>> /\ IsSpace(Head(s)) THEN TrimLeft(Tail(s)) ELSE s

RECURSIVE TrimRight(_)
TrimRight(s) ==
    IF s # <<>> /\ IsSpace(s[Len(s)]) THEN TrimRight(SubSeq(s, 1, Len(s) - 1)) ELSE s

\* strings.TrimSpace
TrimSpace(s) == TrimRight(TrimLeft(s))

\* strings.Index(s, c) for a one-character c, 1-based; 0 for -1
IndexOf(s, c) ==
    IF \E i \in 1..Len(s) : s[i] = c
    THEN CHOOSE i \in 1..Len(s) : s[i] = c /\ \A j \in 1..(i - 1) : s[j] # c
    ELSE 0

\* strings.Split(s, c) for a one-character separator
RECURSIVE Split(_, _)
Split(s, c) ==
    LET i == IndexOf(s, c) IN
    IF i = 0 THEN <<s>>
    ELSE <<SubSeq(s, 1, i - 1)>> \o Split(SubSeq(s, i + 1, Len(s)), c)

\* the longest prefix of digits
RECURSIVE DigitPrefix(_)
DigitPrefix(s) ==
    IF s # <<>> /\ IsDigit(Head(s)) THEN <<Head(s)>> \o DigitPrefix(Tail(s)) ELSE <<>>

RECURSIVE DecimalValue(_)
DecimalValue(ds) ==
    IF ds = <<>> THEN 0
    ELSE DecimalValue(SubSeq(ds, 1, Len(ds) - 1)) * 10 + DigitVal(ds[Len(ds)])

\* fmt.Sscanf(s, "%d", &n): leading blanks are skipped, an optional sign and then
\* at least one digit are read, and whatever follows the digits is left unread
Sscanf_d(s) ==
    LET t == TrimLeft(s)
        signed == t # <<>> /\ Head(t) \in {"+", "-"}
        body == IF signed THEN Tail(t) ELSE t
        ds == DigitPrefix(body)
        v == DecimalValue(ds)
    IN  IF ds = <<>> THEN [ok |-> FALSE, n |-> 0]
        ELSE [ok |-> TRUE, n |-> IF signed /\ Head(t) = "-" THEN -v ELSE v]

----------------------------------------------------------------------------
(* package prayer                                                          *)

AllPrayerNames ==
    <<"Fajr", "Sunrise", "Dhuhr", "Asr", "Sunset", "Maghrib", "Isha",
      "Imsak", "Midnight", "Firstthird", "Lastthird">>

DefaultPrayerNames == <<"Fajr", "Sunrise", "Dhuhr", "Asr", "Maghrib", "Isha">>

KnownNames == {AllPrayerNames[i] : i \in 1..Len(AllPrayerNames)}

\* parseTimeStr(raw, date, loc)
parseTimeStrOnDayInLoc(raw, date, loc) ==
    LET trimmed == TrimSpace(raw)
        idx == IndexOf(trimmed, " ")
        s == IF idx # 0 THEN SubSeq(trimmed, 1, idx - 1) ELSE trimmed
        parts == Split(s, ":")
    IN  IF Len(parts) # 2 THEN [ok |-> FALSE, err |-> "invalid time format"]
        ELSE LET hour == Sscanf_d(parts[1])
                 min == Sscanf_d(parts[2])
             IN  IF ~hour.ok THEN [ok |-> FALSE, err |-> "invalid hour"]
                 ELSE IF ~min.ok THEN [ok |-> FALSE, err |-> "invalid minute"]
                 ELSE [ok |-> TRUE,
                       t |-> TimeDate(DayOf(TimeIn(date, loc)), hour.n, min.n, loc)]

parseTimeStr(raw, date, loc) ==
    LET trimmed == TrimSpace(raw)
        idx == IndexOf(trimmed, " ")
        s == IF idx # 0 THEN SubSeq(trimmed, 1, idx - 1) ELSE trimmed
        parts == Split(s, ":")
    IN  IF Len(parts) # 2 THEN [ok |-> FALSE, err |-> "invalid time format"]
        ELSE LET hour == Sscanf_d(parts[1])
                 min == Sscanf_d(parts[2])
             IN  IF ~hour.ok THEN [ok |-> FALSE, err |-> "invalid hour"]
                 ELSE IF ~min.ok THEN [ok |-> FALSE, err |-> "invalid minute"]
                 ELSE [ok |-> TRUE, t |-> TimeDate(DayOf(date), hour.n, min.n, loc)]

\* the loop of ParseTimings over selected[i..]
RECURSIVE ParseFromSkippingUnknown(_, _, _, _, _)
ParseFromSkippingUnknown(timings, date, loc, selected, i) ==
    IF i > Len(selected) THEN [ok |-> TRUE, prayers |-> <<>>]
    ELSE IF selected[i] \notin DOMAIN timings
         THEN ParseFromSkippingUnknown(timings, date, loc, selected, i + 1)
    ELSE LET p == parseTimeStr(timings[selected[i]], date, loc) IN
         IF ~p.ok THEN [ok |-> FALSE, err |-> "failed to parse time"]
         ELSE LET rest == ParseFromSkippingUnknown(timings, date, loc, selected, i + 1) IN
              IF ~rest.ok THEN rest
              ELSE [ok |-> TRUE,
                    prayers |-> <<[Name |-> selected[i], Time |-> p.t]>> \o rest.prayers]

RECURSIVE ParseFrom(_, _, _, _, _)
ParseFrom(timings, date, loc, selected, i) ==
    IF i > Len(selected) THEN [ok |-> TRUE, prayers |-> <<>>]
    ELSE IF selected[i] \notin DOMAIN timings
         THEN [ok |-> FALSE, err |-> "unknown prayer name"]
    ELSE LET p == parseTimeStr(timings[selected[i]], date, loc) IN
         IF ~p.ok THEN [ok |-> FALSE, err |-> "failed to parse time"]
         ELSE LET rest == ParseFrom(timings, date, loc, selected, i + 1) IN
              IF ~rest.ok THEN rest
              ELSE [ok |-> TRUE,
                    prayers |-> <<[Name |-> selected[i], Time |-> p.t]>> \o rest.prayers]

\* ParseTimings(timings, date, loc, selected)
ParseTimings(timings, date, loc, selected) == ParseFrom(timings, date, loc, selected, 1)

\* the loop of NextPrayer from index i: the index returned, 0 for nil
RECURSIVE NextFrom(_, _, _)
NextFrom(prayers, now, i) ==
    IF i > Len(prayers) THEN 0
    ELSE IF After(prayers[i].Time, now) THEN i
    ELSE NextFrom(prayers, now, i + 1)

\* NextPrayer(prayers, now): a pointer to an element, or nil
NextPrayerLastWhenNone(prayers, now) ==
    LET i == NextFrom(prayers, now, 1) IN
    IF i # 0 THEN prayers[i]
    ELSE IF Len(prayers) > 0 THEN prayers[Len(prayers)] ELSE Nil

NextPrayer(prayers, now) ==
    LET i == NextFrom(prayers, now, 1) IN
    IF i = 0 THEN Nil ELSE prayers[i]

\* TimeRemaining(prayer, now), in minutes
TimeRemaining(p, now) == Sub(p.Time, now)

SecondsPerMinute == 60

\* a time.Duration d is [sec, ns]: sec whole seconds (rounded down) and ns
\* nanoseconds on top of them, 0 <= ns < 10^9; d < 0 exactly when sec < 0.
\*
\* int(float64(d / unit) + float64(d % unit) / float64(unit)), as Duration.Hours
\* and Duration.Minutes compute it, for a unit of `unit` seconds that is
\* 2^twos * odd nanoseconds: the float64 sum is the next whole number already
\* when |d| is closer to it than half the float64 spacing 2^(e-52) at |d| / unit,
\* where 2^e <= |d| / unit < 2^(e+1); division and int() round towards zero
FloatTrunc(d, unit, odd, twos) ==
    LET a == IF d.sec >= 0 THEN d
             ELSE IF d.ns = 0 THEN [sec |-> -d.sec, ns |-> 0]
             ELSE [sec |-> -d.sec - 1, ns |-> 1000000000 - d.ns]
        whole == a.sec \div unit
        gap == 1000000000 - a.ns
        e == CHOOSE k \in 0..30 : whole \div (2 ^ k) = 1
        shift == 53 - twos - e
        trunc == IF /\ whole >= 1
                    /\ a.sec % unit = unit - 1 /\ a.ns > 0
                    /\ shift >= 0 /\ shift < 30
                    /\ 2 ^ shift < odd
                    /\ gap <= (odd - 1) \div (2 ^ shift)
                 THEN whole + 1
                 ELSE whole
    IN  IF d.sec >= 0 THEN trunc ELSE -trunc

\* int(d.Hours()), an hour being 2^13 * 439453125 ns
IntHours(d) == FloatTrunc(d, MinutesPerHour * SecondsPerMinute, 439453125, 13)

\* int(d.Minutes()), a minute being 2^11 * 29296875 ns
IntMinutes(d) == FloatTrunc(d, SecondsPerMinute, 29296875, 11)

\* FormatRemaining(d): "0m", "<m>m" or "<h>h <m>m"
FormatRemaining(d) ==
    IF d.sec < 0 THEN <<0, "m">>
    ELSE LET h == IntHours(d)
             m == IntMinutes(d) % 60
         IN  IF h > 0 THEN <<h, "h ", m, "m">> ELSE <<m, "m">>

\* t.Format(layout) for the layouts "15:04" and "3:04 PM"
FormatClock(t, layout) ==
    LET h == MinuteOfDay(t) \div MinutesPerHour
        m == MinuteOfDay(t) % MinutesPerHour
    IN  IF layout = "15:04" THEN <<h, ":", m>>
        ELSE <<IF h % 12 = 0 THEN 12 ELSE h % 12, ":", m, IF h >= 12 THEN "PM" ELSE "AM">>

ShortNames ==
    [Fajr |-> "F", Sunrise |-> "S", Dhuhr |-> "D", Asr |-> "A", Sunset |-> "St",
     Maghrib |-> "M", Isha |-> "I", Imsak |-> "Im", Midnight |-> "Mi",
     Firstthird |-> "F3", Lastthird |-> "L3"]

\* a format mode is the sequence of the pieces of the mode string between and
\* including its "{{" and "}}": <<"full">>, or <<"{{", "Name", "}}", " in ",
\* "{{", "Remaining", "}}">> for "{{.Name}} in {{.Remaining}}"; a piece inside
\* an action is the name of the field it refers to.
\*
\* template.New("custom").Parse(tmpl), from piece i on: the text and field nodes,
\* or the error of an action that is empty or not closed
RECURSIVE Parse(_, _, _)
Parse(tmpl, i, tree) ==
    IF i > Len(tmpl) THEN [ok |-> TRUE, tree |-> tree]
    ELSE IF tmpl[i] # "{{" THEN Parse(tmpl, i + 1, Append(tree, [text |-> tmpl[i]]))
    ELSE IF i + 1 > Len(tmpl) THEN [ok |-> FALSE, err |-> "unclosed action"]
    ELSE IF tmpl[i + 1] = "}}" THEN [ok |-> FALSE, err |-> "missing value for command"]
    ELSE IF tmpl[i + 1] = "{{" THEN [ok |-> FALSE, err |-> "unexpected {{ in command"]
    ELSE IF i + 2 > Len(tmpl) \/ tmpl[i + 2] # "}}"
    THEN [ok |-> FALSE, err |-> "unclosed action"]
    ELSE Parse(tmpl, i + 3, Append(tree, [field |-> tmpl[i + 1]]))

\* t.Execute(&buf, data), from node i on: the nodes are written to buf in order
\* until a field that data does not have
RECURSIVE Execute(_, _, _, _)
Execute(tree, data, i, buf) ==
    IF i > Len(tree) THEN [ok |-> TRUE, buf |-> buf]
    ELSE IF "text" \in DOMAIN tree[i]
    THEN Execute(tree, data, i + 1, Append(buf, tree[i].text))
    ELSE IF tree[i].field \in DOMAIN data
    THEN Execute(tree, data, i + 1, Append(buf, data[tree[i].field]))
    ELSE [ok |-> FALSE, buf |-> buf,
          err |-> "can't evaluate field " \o tree[i].field]

\* formatCustom(tmpl, data)
formatCustomFlushingBuffer(tmpl, data) ==
    LET t == Parse(tmpl, 1, <<>>)
        r == Execute(t.tree, data, 1, <<>>)
    IN  IF ~t.ok THEN <<"template-err: ", t.err>>
        ELSE IF ~r.ok THEN r.buf \o <<"template-err: ", r.err>>
        ELSE r.buf

formatCustom(tmpl, data) ==
    LET t == Parse(tmpl, 1, <<>>)
        r == Execute(t.tree, data, 1, <<>>)
    IN  IF ~t.ok THEN <<"template-err: ", t.err>>
        ELSE IF ~r.ok THEN <<"template-err: ", r.err>>
        ELSE r.buf

\* FormatOutput(p, now, mode, timeFormat): the pieces of the printed string
FormatOutputRejectingUnknown(p, now, mode, timeFormat) ==
    LET d == [sec |-> TimeRemaining(p, now) * SecondsPerMinute, ns |-> 0]
        remaining == FormatRemaining(d)
        timeStr == FormatClock(p.Time, timeFormat)
        short == IF p.Name \in DOMAIN ShortNames THEN ShortNames[p.Name] ELSE ""
        minutes == IntMinutes(d)
    IN  IF \E i \in 1..Len(mode) : mode[i] = "{{"
        THEN formatCustom(mode,
                          [Name |-> p.Name, ShortName |-> short, Time |-> timeStr,
                           Remaining |-> remaining, Hours |-> IntHours(d),
                           Minutes |-> IF minutes < 0 THEN -((-minutes) % 60)
                                       ELSE minutes % 60])
        ELSE CASE mode = <<"time-remaining">> -> <<remaining>>
               [] mode = <<"next-prayer-time">> -> <<timeStr>>
               [] mode = <<"name-and-time">> -> <<p.Name, " ", timeStr>>
               [] mode = <<"name-and-remaining">> -> <<p.Name, " ", remaining>>
               [] mode = <<"short-name-and-time">> -> <<short, " ", timeStr>>
               [] mode = <<"short-name-and-remaining">> -> <<short, " ", remaining>>
               [] mode = <<"full">> -> <<p.Name, " ", timeStr, " (", remaining, ")">>
               [] OTHER -> <<"unknown format">>

FormatOutput(p, now, mode, timeFormat) ==
    LET d == [sec |-> TimeRemaining(p, now) * SecondsPerMinute, ns |-> 0]
        remaining == FormatRemaining(d)
        timeStr == FormatClock(p.Time, timeFormat)
        short == IF p.Name \in DOMAIN ShortNames THEN ShortNames[p.Name] ELSE ""
        minutes == IntMinutes(d)
    IN  IF \E i \in 1..Len(mode) : mode[i] = "{{"
        THEN formatCustom(mode,
                          [Name |-> p.Name, ShortName |-> short, Time |-> timeStr,
                           Remaining |-> remaining, Hours |-> IntHours(d),
                           Minutes |-> IF minutes < 0 THEN -((-minutes) % 60)
                                       ELSE minutes % 60])
        ELSE CASE mode = <<"time-remaining">> -> <<remaining>>
               [] mode = <<"next-prayer-time">> -> <<timeStr>>
               [] mode = <<"name-and-time">> -> <<p.Name, " ", timeStr>>
               [] mode = <<"name-and-remaining">> -> <<p.Name, " ", remaining>>
               [] mode = <<"short-name-and-time">> -> <<short, " ", timeStr>>
               [] mode = <<"short-name-and-remaining">> -> <<short, " ", remaining>>
               [] mode = <<"full">> -> <<p.Name, " ", timeStr, " (", remaining, ")">>
               [] OTHER -> <<p.Name, " ", timeStr>>

----------------------------------------------------------------------------
(* package api: the provider's response                                    *)

\* "HH:MM" as the provider prints it
TimeStr(h, m) ==
    <<Digits[(h \div 10) + 1], Digits[(h % 10) + 1], ":",
      Digits[(m \div 10) + 1], Digits[(m % 10) + 1]>>

\* api.Timings: the 11 named time strings
TimingsOf(fajr, sunrise, dhuhr, asr, sunset, maghrib, isha, imsak, midnight, firstthird, lastthird) ==
    [Fajr |-> fajr, Sunrise |-> sunrise, Dhuhr |-> dhuhr, Asr |-> asr,
     Sunset |-> sunset, Maghrib |-> maghrib, Isha |-> isha, Imsak |-> imsak,
     Midnight |-> midnight, Firstthird |-> firstthird, Lastthird |-> lastthird]

\* the zero value of api.Timings
ZeroTimings == [n \in KnownNames |-> <<>>]

\* api.Meta, and its zero value
MetaOf(lat, lon, tz, method, school) ==
    [Latitude |-> lat, Longitude |-> lon, Timezone |-> tz,
     Method |-> method, School |-> school]

ZeroMeta == MetaOf(0, 0, "", 0, 0)

\* the test suite's timetable (cache_test.go, sampleAPIResponse), Fajr moved
\* earlier by shift minutes
SampleTimings(shift) ==
    TimingsOf(TimeStr((5 * MinutesPerHour + 17 - shift) \div MinutesPerHour,
                      (5 * MinutesPerHour + 17 - shift) % MinutesPerHour),
              TimeStr(6, 48), TimeStr(12, 13), TimeStr(15, 2),
              TimeStr(17, 39), TimeStr(17, 39), TimeStr(19, 10), TimeStr(5, 7),
              TimeStr(0, 14), TimeStr(22, 2), TimeStr(2, 25))

LondonLat == 515074000

LondonLon == -1278000

\* api.Response with Code 200
ResponseOf(timings, meta, readable) ==
    [Code |-> 200,
     Data |-> [Timings |-> timings, Meta |-> meta, Date |-> [Readable |-> readable]]]

----------------------------------------------------------------------------
(* package cache                                                           *)

GeoTTL == 24 * MinutesPerHour

\* fmt.Sprintf("%.6f", x) of x * 10^-7 degrees: the sign, and the magnitude
\* rounded to 10^-6 ("-0.000000" keeps its sign)
Fmt6(x) ==
    [neg |-> x < 0, micro |-> ((IF x < 0 THEN -x ELSE x) + 5) \div 10]

\* cacheKey: the string that is hashed, "%s|%.6f|%.6f|%s|%s|%d|%d"; city, "|" and
\* country are kept as one string since either may itself hold a "|"
cacheKey(date, lat, lon, city, country, method, school) ==
    <<date, Fmt6(lat), Fmt6(lon), city \o "|" \o country, method, school>>

\* file contents: bytes that are no JSON document, or a JSON object
Garbage == [kind |-> "garbage"]

JsonObject(obj) == [kind |-> "json", obj |-> obj]

\* a field of a JSON object, or the Go zero value when the object lacks it
Field(obj, name, zero) == IF name \in DOMAIN obj THEN obj[name] ELSE zero

\* json.Unmarshal(data, &entry) into a PrayerCacheEntry
UnmarshalPrayerEntry(data) ==
    IF data.kind # "json" THEN [ok |-> FALSE]
    ELSE [ok |-> TRUE,
          entry |-> [Date |-> Field(data.obj, "date", <<>>),
                     Method |-> Field(data.obj, "method", 0),
                     School |-> Field(data.obj, "school", 0),
                     Timings |-> Field(data.obj, "timings", ZeroTimings),
                     Meta |-> Field(data.obj, "meta", ZeroMeta)]]

\* json.Marshal(entry) of a PrayerCacheEntry
MarshalPrayerEntry(entry) ==
    JsonObject([date |-> entry.Date, method |-> entry.Method, school |-> entry.School,
                timings |-> entry.Timings, meta |-> entry.Meta])

\* LoadTimings on the cache directory fs: the entry, or Nil
LoadTimingsAnyDate(fs, date, lat, lon, city, country, method, school) ==
    LET dateStr == FormatDate(date)
        path == cacheKey(dateStr, lat, lon, city, country, method, school)
    IN  IF path \notin DOMAIN fs THEN Nil
        ELSE LET u == UnmarshalPrayerEntry(fs[path]) IN
             IF ~u.ok THEN Nil
             ELSE u.entry

LoadTimings(fs, date, lat, lon, city, country, method, school) ==
    LET dateStr == FormatDate(date)
        path == cacheKey(dateStr, lat, lon, city, country, method, school)
    IN  IF path \notin DOMAIN fs THEN Nil
        ELSE LET u == UnmarshalPrayerEntry(fs[path]) IN
             IF ~u.ok THEN Nil
             ELSE IF u.entry.Date # dateStr THEN Nil
             ELSE u.entry

\* os.WriteFile(path, data): "ok"; "fail": the file could not be opened and the
\* directory is unchanged; "partial": the file was truncated and the write broke off
WriteOutcomes == {"ok", "fail", "partial"}

WriteFile(fs, path, data, outcome) ==
    IF outcome = "fail" THEN fs
    ELSE [p \in DOMAIN fs \cup {path} |->
            IF p = path THEN (IF outcome = "ok" THEN data ELSE Garbage) ELSE fs[p]]

\* the PrayerCacheEntry SaveTimings builds
SavedEntryDroppingMeta(dateStr, method, school, resp) ==
    [Date |-> dateStr, Method |-> method, School |-> school,
     Timings |-> resp.Data.Timings, Meta |-> ZeroMeta]

SavedEntry(dateStr, method, school, resp) ==
    [Date |-> dateStr, Method |-> method, School |-> school,
     Timings |-> resp.Data.Timings, Meta |-> resp.Data.Meta]

\* SaveTimings: the cache directory afterwards
SaveTimingsKeepingExisting(fs, date, lat, lon, city, country, method, school, resp, outcome) ==
    LET dateStr == FormatDate(date)
        path == cacheKey(dateStr, lat, lon, city, country, method, school)
    IN  IF path \in DOMAIN fs THEN fs
        ELSE WriteFile(fs, path,
                       MarshalPrayerEntry(SavedEntry(dateStr, method, school, resp)),
                       outcome)

SaveTimings(fs, date, lat, lon, city, country, method, school, resp, outcome) ==
    LET dateStr == FormatDate(date)
        path == cacheKey(dateStr, lat, lon, city, country, method, school)
    IN  WriteFile(fs, path, MarshalPrayerEntry(SavedEntry(dateStr, method, school, resp)),
                  outcome)

\* the error SaveTimings returns ("" for nil)
SaveTimingsErr(outcome) == IF outcome = "ok" THEN "" ELSE "failed to write cache file"

\* geolocation.json
NoFile == [kind |-> "absent"]

ZeroLocation == [Latitude |-> 0, Longitude |-> 0, City |-> "", Country |-> "", Timezone |-> ""]

\* the zero time.Time, year 1: long before every instant of the model
ZeroTime == -(1000 * MinutesPerDay)

\* json.Unmarshal(data, &entry) into a GeoCacheEntry
UnmarshalGeoEntry(data) ==
    IF data.kind # "json" THEN [ok |-> FALSE]
    ELSE [ok |-> TRUE,
          entry |-> [Location |-> Field(data.obj, "location", ZeroLocation),
                     CachedAt |-> Field(data.obj, "cached_at", ZeroTime)]]

\* LoadGeo at wall-clock time now: the location, or Nil
LoadGeoExpiringAtTTL(gf, now) ==
    IF gf.kind = "absent" THEN Nil
    ELSE LET u == UnmarshalGeoEntry(gf) IN
         IF ~u.ok THEN Nil
         ELSE IF now - u.entry.CachedAt >= GeoTTL THEN Nil
         ELSE u.entry.Location

LoadGeoIgnoringParseError(gf, now) ==
    IF gf.kind = "absent" THEN Nil
    ELSE LET u == UnmarshalGeoEntry(gf) IN
         IF ~u.ok THEN ZeroLocation
         ELSE IF now - u.entry.CachedAt > GeoTTL THEN Nil
         ELSE u.entry.Location

LoadGeo(gf, now) ==
    IF gf.kind = "absent" THEN Nil
    ELSE LET u == UnmarshalGeoEntry(gf) IN
         IF ~u.ok THEN Nil
         ELSE IF now - u.entry.CachedAt > GeoTTL THEN Nil
         ELSE u.entry.Location

\* SaveGeo at wall-clock time now: geolocation.json afterwards
SaveGeo(gf, loc, now, outcome) ==
    IF outcome = "fail" THEN gf
    ELSE IF outcome = "partial" THEN Garbage
    ELSE JsonObject([location |-> loc, cached_at |-> now])

----------------------------------------------------------------------------
(* package geo, package api: the collaborators                             *)

RiyadhLat == 247136000

RiyadhLon == 466753000

\* what geo.DetectLocation may return: Nil for an error, or the caller's location,
\* a place that the geolocation service puts in the Riyadh timezone and for which
\* the prayer-times provider reports another one
DetectOutcomes ==
    {Nil,
     [Latitude |-> RiyadhLat + 100, Longitude |-> RiyadhLon, City |-> "Riyadh",
      Country |-> "Saudi Arabia", Timezone |-> "Riyadh"]}

\* how a provider request may end: a transport, status or decoding error, a
\* well-formed timetable, or a timetable with an unparseable time
ApiOutcomes == {"fail", "ok", "malformed"}

\* the timezone the provider resolves a place to
ProviderZone(lat, lon, city) ==
    IF city = "" /\ lat = RiyadhLat /\ lon = RiyadhLon THEN "Riyadh" ELSE "UTC"

\* the provider's timetable for a calendar day: Fajr one minute earlier each day
ProviderTimings(dateStr, outcome) ==
    LET good == SampleTimings(dateStr[1]) IN
    IF outcome = "malformed" THEN [good EXCEPT !["Isha"] = <<"1", "9", ":">>] ELSE good

\* the coordinate the provider reads from a request: "%f" prints six decimals
EchoCoord(x) == (IF Fmt6(x).neg THEN -1 ELSE 1) * Fmt6(x).micro * 10

\* client.FetchByCoordinates; Meta echoes the request
FetchByCoordinates(date, lat, lon, method, school, outcome) ==
    IF outcome = "fail" THEN [ok |-> FALSE]
    ELSE [ok |-> TRUE,
          resp |-> ResponseOf(ProviderTimings(FormatDate(date), outcome),
                              MetaOf(EchoCoord(lat), EchoCoord(lon), ProviderZone(lat, lon, ""),
                                     method, school),
                              FormatDate(date))]

\* client.FetchByCity; Meta carries the coordinates the provider resolved
FetchByCity(date, city, country, method, school, outcome) ==
    IF outcome = "fail" THEN [ok |-> FALSE]
    ELSE [ok |-> TRUE,
          resp |-> ResponseOf(ProviderTimings(FormatDate(date), outcome),
                              MetaOf(EchoCoord(LondonLat), EchoCoord(LondonLon),
                                     ProviderZone(0, 0, city), method, school),
                              FormatDate(date))]

----------------------------------------------------------------------------
(* package cli: the next command                                           *)

\* resolveLocation, the default case: the cached geolocation when LoadGeo hits,
\* else geo.DetectLocation, whose result is saved when there is a cache
resolveLocationDetectingTwice(c, gf, now, detected, wr) ==
    LET cached == IF c THEN LoadGeo(gf, now) ELSE Nil
        loadEv == IF c
                  THEN <<[ev |-> "LoadGeo", file |-> gf.kind, hit |-> cached # Nil]>>
                  ELSE <<>>
    IN  IF cached # Nil
        THEN [ok |-> TRUE, gf |-> gf, events |-> loadEv,
              loc |-> [Mode |-> "coords", Lat |-> cached.Latitude,
                       Lon |-> cached.Longitude, City |-> "", Country |-> "",
                       Timezone |-> cached.Timezone]]
        ELSE IF detected = Nil
        THEN [ok |-> FALSE, gf |-> gf,
              events |-> loadEv \o <<[ev |-> "Detect", ok |-> FALSE],
                                     [ev |-> "Detect", ok |-> FALSE]>>,
              err |-> "no location specified and auto-detection failed"]
        ELSE [ok |-> TRUE,
              gf |-> IF c THEN SaveGeo(gf, detected, now, wr) ELSE gf,
              events |-> loadEv \o <<[ev |-> "Detect", ok |-> TRUE]>>
                         \o (IF c THEN <<[ev |-> "SaveGeo", outcome |-> wr]>>
                             ELSE <<>>),
              loc |-> [Mode |-> "coords", Lat |-> detected.Latitude,
                       Lon |-> detected.Longitude, City |-> "", Country |-> "",
                       Timezone |-> detected.Timezone]]

resolveLocationDefault(c, gf, now, detected, wr) ==
    LET cached == IF c THEN LoadGeo(gf, now) ELSE Nil
        loadEv == IF c
                  THEN <<[ev |-> "LoadGeo", file |-> gf.kind, hit |-> cached # Nil]>>
                  ELSE <<>>
    IN  IF cached # Nil
        THEN [ok |-> TRUE, gf |-> gf, events |-> loadEv,
              loc |-> [Mode |-> "coords", Lat |-> cached.Latitude,
                       Lon |-> cached.Longitude, City |-> "", Country |-> "",
                       Timezone |-> cached.Timezone]]
        ELSE IF detected = Nil
        THEN [ok |-> FALSE, gf |-> gf,
              events |-> loadEv \o <<[ev |-> "Detect", ok |-> FALSE]>>,
              err |-> "no location specified and auto-detection failed"]
        ELSE [ok |-> TRUE,
              gf |-> IF c THEN SaveGeo(gf, detected, now, wr) ELSE gf,
              events |-> loadEv \o <<[ev |-> "Detect", ok |-> TRUE]>>
                         \o (IF c THEN <<[ev |-> "SaveGeo", outcome |-> wr]>>
                             ELSE <<>>),
              loc |-> [Mode |-> "coords", Lat |-> detected.Latitude,
                       Lon |-> detected.Longitude, City |-> "", Country |-> "",
                       Timezone |-> detected.Timezone]]

\* resolveLocation(lat, lon, city, country, c) on geolocation.json gf at time now;
\* c is FALSE for a nil cache
resolveLocationCityFirst(lat, lon, city, country, c, gf, now, detected, wr) ==
    IF city # "" /\ country # ""
    THEN [ok |-> TRUE, gf |-> gf, events |-> <<>>,
          loc |-> [Mode |-> "city", Lat |-> 0, Lon |-> 0, City |-> city,
                   Country |-> country, Timezone |-> ""]]
    ELSE IF lat # 0 \/ lon # 0
    THEN [ok |-> TRUE, gf |-> gf, events |-> <<>>,
          loc |-> [Mode |-> "coords", Lat |-> lat, Lon |-> lon, City |-> "",
                   Country |-> "", Timezone |-> ""]]
    ELSE IF city # ""
    THEN [ok |-> FALSE, gf |-> gf, events |-> <<>>,
          err |-> "--country is required when using --city"]
    ELSE resolveLocationDefault(c, gf, now, detected, wr)

resolveLocationCountryOptional(lat, lon, city, country, c, gf, now, detected, wr) ==
    IF lat # 0 \/ lon # 0
    THEN [ok |-> TRUE, gf |-> gf, events |-> <<>>,
          loc |-> [Mode |-> "coords", Lat |-> lat, Lon |-> lon, City |-> "",
                   Country |-> "", Timezone |-> ""]]
    ELSE IF city # ""
    THEN [ok |-> TRUE, gf |-> gf, events |-> <<>>,
          loc |-> [Mode |-> "city", Lat |-> 0, Lon |-> 0, City |-> city,
                   Country |-> country, Timezone |-> ""]]
    ELSE resolveLocationDefault(c, gf, now, detected, wr)

resolveLocationCachingExplicit(lat, lon, city, country, c, gf, now, detected, wr) ==
    IF lat # 0 \/ lon # 0
    THEN [ok |-> TRUE,
          gf |-> IF c
                 THEN SaveGeo(gf, [Latitude |-> lat, Longitude |-> lon, Timezone |-> ""],
                              now, wr)
                 ELSE gf,
          events |-> <<>>,
          loc |-> [Mode |-> "coords", Lat |-> lat, Lon |-> lon, City |-> "",
                   Country |-> "", Timezone |-> ""]]
    ELSE IF city # ""
    THEN IF country = ""
         THEN [ok |-> FALSE, gf |-> gf, events |-> <<>>,
               err |-> "--country is required when using --city"]
         ELSE [ok |-> TRUE, gf |-> gf, events |-> <<>>,
               loc |-> [Mode |-> "city", Lat |-> 0, Lon |-> 0, City |-> city,
                        Country |-> country, Timezone |-> ""]]
    ELSE resolveLocationDefault(c, gf, now, detected, wr)

\* resolveLocation, were the place given along with coordinates kept in the result
resolveLocationKeepingPlace(lat, lon, city, country, c, gf, now, detected, wr) ==
    IF lat # 0 \/ lon # 0
    THEN [ok |-> TRUE, gf |-> gf, events |-> <<>>,
          loc |-> [Mode |-> "coords", Lat |-> lat, Lon |-> lon, City |-> city,
                   Country |-> country, Timezone |-> ""]]
    ELSE IF city # ""
    THEN IF country = ""
         THEN [ok |-> FALSE, gf |-> gf, events |-> <<>>,
               err |-> "--country is required when using --city"]
         ELSE [ok |-> TRUE, gf |-> gf, events |-> <<>>,
               loc |-> [Mode |-> "city", Lat |-> 0, Lon |-> 0, City |-> city,
                        Country |-> country, Timezone |-> ""]]
    ELSE resolveLocationDefault(c, gf, now, detected, wr)

resolveLocation(lat, lon, city, country, c, gf, now, detected, wr) ==
    IF lat # 0 \/ lon # 0
    THEN [ok |-> TRUE, gf |-> gf, events |-> <<>>,
          loc |-> [Mode |-> "coords", Lat |-> lat, Lon |-> lon, City |-> "",
                   Country |-> "", Timezone |-> ""]]
    ELSE IF city # ""
    THEN IF country = ""
         THEN [ok |-> FALSE, gf |-> gf, events |-> <<>>,
               err |-> "--country is required when using --city"]
         ELSE [ok |-> TRUE, gf |-> gf, events |-> <<>>,
               loc |-> [Mode |-> "city", Lat |-> 0, Lon |-> 0, City |-> city,
                        Country |-> country, Timezone |-> ""]]
    ELSE resolveLocationDefault(c, gf, now, detected, wr)

\* the provider call of fetchTimings, by loc.Mode
FetchFromApi(date, loc, method, school, api) ==
    IF loc.Mode = "city"
    THEN FetchByCity(date, loc.City, loc.Country, method, school, api)
    ELSE FetchByCoordinates(date, loc.Lat, loc.Lon, method, school, api)

\* fetchTimings(date, loc, method, school, c) on the cache directory fs
fetchTimingsAlwaysApi(fs, date, loc, method, school, c, api, wr) ==
    LET fetched == FetchFromApi(date, loc, method, school, api)
        apiEv == <<[ev |-> "Fetch", date |-> FormatDate(date), by |-> loc.Mode,
                    ok |-> fetched.ok]>>
    IN  IF ~fetched.ok
        THEN [ok |-> FALSE, fs |-> fs, events |-> apiEv, err |-> "API request failed"]
        ELSE [ok |-> TRUE,
              fs |-> IF c
                     THEN SaveTimings(fs, date, loc.Lat, loc.Lon, loc.City, loc.Country,
                                      method, school, fetched.resp, wr)
                     ELSE fs,
              events |-> apiEv \o (IF c THEN <<[ev |-> "SaveTimings", date |-> FormatDate(date),
                                                 outcome |-> wr]>>
                                   ELSE <<>>),
              result |-> [Timings |-> fetched.resp.Data.Timings,
                          Meta |-> fetched.resp.Data.Meta]]

fetchTimingsFailingOnSaveError(fs, date, loc, method, school, c, api, wr) ==
    LET entry == IF c
                 THEN LoadTimings(fs, date, loc.Lat, loc.Lon, loc.City, loc.Country,
                                  method, school)
                 ELSE Nil
        fetched == FetchFromApi(date, loc, method, school, api)
    IN  IF entry # Nil
        THEN [ok |-> TRUE, fs |-> fs, events |-> <<>>,
              result |-> [Timings |-> entry.Timings, Meta |-> entry.Meta]]
        ELSE IF ~fetched.ok
        THEN [ok |-> FALSE, fs |-> fs, events |-> <<>>, err |-> "API request failed"]
        ELSE IF c /\ wr # "ok"
        THEN [ok |-> FALSE,
              fs |-> SaveTimings(fs, date, loc.Lat, loc.Lon, loc.City, loc.Country,
                                 method, school, fetched.resp, wr),
              events |-> <<>>, err |-> SaveTimingsErr(wr)]
        ELSE [ok |-> TRUE,
              fs |-> IF c
                     THEN SaveTimings(fs, date, loc.Lat, loc.Lon, loc.City, loc.Country,
                                      method, school, fetched.resp, wr)
                     ELSE fs,
              events |-> <<>>,
              result |-> [Timings |-> fetched.resp.Data.Timings,
                          Meta |-> fetched.resp.Data.Meta]]

fetchTimingsSavingOnFailure(fs, date, loc, method, school, c, api, wr) ==
    LET entry == IF c
                 THEN LoadTimings(fs, date, loc.Lat, loc.Lon, loc.City, loc.Country,
                                  method, school)
                 ELSE Nil
        path == cacheKey(FormatDate(date), loc.Lat, loc.Lon, loc.City, loc.Country,
                         method, school)
        loadEv == IF c
                  THEN <<[ev |-> "LoadTimings", date |-> FormatDate(date),
                          file |-> IF path \in DOMAIN fs THEN fs[path].kind ELSE "absent",
                          hit |-> entry # Nil]>>
                  ELSE <<>>
        fetched == FetchFromApi(date, loc, method, school, api)
        apiEv == <<[ev |-> "Fetch", date |-> FormatDate(date), by |-> loc.Mode,
                    ok |-> fetched.ok]>>
    IN  IF entry # Nil
        THEN [ok |-> TRUE, fs |-> fs, events |-> loadEv,
              result |-> [Timings |-> entry.Timings, Meta |-> entry.Meta]]
        ELSE IF ~fetched.ok
        THEN [ok |-> FALSE,
              fs |-> IF c
                     THEN SaveTimings(fs, date, loc.Lat, loc.Lon, loc.City, loc.Country,
                                      method, school, ResponseOf(ZeroTimings, ZeroMeta, <<>>),
                                      wr)
                     ELSE fs,
              events |-> loadEv \o apiEv,
              err |-> "API request failed"]
        ELSE [ok |-> TRUE,
              fs |-> IF c
                     THEN SaveTimings(fs, date, loc.Lat, loc.Lon, loc.City, loc.Country,
                                      method, school, fetched.resp, wr)
                     ELSE fs,
              events |-> loadEv \o apiEv
                         \o (IF c THEN <<[ev |-> "SaveTimings", date |-> FormatDate(date),
                                          outcome |-> wr]>>
                             ELSE <<>>),
              result |-> [Timings |-> fetched.resp.Data.Timings,
                          Meta |-> fetched.resp.Data.Meta]]

fetchTimings(fs, date, loc, method, school, c, api, wr) ==
    LET entry == IF c
                 THEN LoadTimings(fs, date, loc.Lat, loc.Lon, loc.City, loc.Country,
                                  method, school)
                 ELSE Nil
        path == cacheKey(FormatDate(date), loc.Lat, loc.Lon, loc.City, loc.Country,
                         method, school)
        loadEv == IF c
                  THEN <<[ev |-> "LoadTimings", date |-> FormatDate(date),
                          file |-> IF path \in DOMAIN fs THEN fs[path].kind ELSE "absent",
                          hit |-> entry # Nil]>>
                  ELSE <<>>
        fetched == FetchFromApi(date, loc, method, school, api)
        apiEv == <<[ev |-> "Fetch", date |-> FormatDate(date), by |-> loc.Mode,
                    ok |-> fetched.ok]>>
    IN  IF entry # Nil
        THEN [ok |-> TRUE, fs |-> fs, events |-> loadEv,
              result |-> [Timings |-> entry.Timings, Meta |-> entry.Meta]]
        ELSE IF ~fetched.ok
        THEN [ok |-> FALSE, fs |-> fs, events |-> loadEv \o apiEv,
              err |-> "API request failed"]
        ELSE [ok |-> TRUE,
              fs |-> IF c
                     THEN SaveTimings(fs, date, loc.Lat, loc.Lon, loc.City, loc.Country,
                                      method, school, fetched.resp, wr)
                     ELSE fs,
              events |-> loadEv \o apiEv
                         \o (IF c THEN <<[ev |-> "SaveTimings", date |-> FormatDate(date),
                                          outcome |-> wr]>>
                             ELSE <<>>),
              result |-> [Timings |-> fetched.resp.Data.Timings,
                          Meta |-> fetched.resp.Data.Meta]]

\* the merged configuration of an invocation (effectiveConfig), whether
\* cache.New succeeded, and the machine's local zone
DefaultConfig ==
    [Latitude |-> LondonLat, Longitude |-> LondonLon, City |-> "", Country |-> "",
     Method |-> 2, School |-> 0, Prayers |-> <<>>, TimeFormat |-> "24h",
     Format |-> <<"full">>, CacheOK |-> TRUE, Local |-> "UTC"]

\* selectedPrayers: the --prayers list when it is not empty, else the defaults
SelectedPrayers(cfg) == IF cfg.Prayers # <<>> THEN cfg.Prayers ELSE DefaultPrayerNames

GoTimeFmt(cfg) == IF cfg.TimeFormat = "12h" THEN "3:04 PM" ELSE "15:04"

\* no command is running
NoInvocation == [cmd |-> "none"]

\* what runNext prints when tomorrow's timetable cannot be fetched
DegradedOutputFirstEntry(prayers) == <<prayers[1].Name, " --:--">>

DegradedOutput(prayers) == <<prayers[Len(prayers)].Name, " --:--">>

\* the locals of runNext; state is the terminal state once the command is done
NewInvocation(cfg, now) ==
    [cmd |-> "next", cfg |-> cfg, now |-> now, loc |-> Nil,
     selected |-> SelectedPrayers(cfg), tzLoc |-> "", prayers |-> <<>>, next |-> Nil,
     tomorrow |-> Nil, tomorrowPrayers |-> <<>>, state |-> ""]

\* runNext up to resolveLocation
Start(cfg, detected, wr) ==
    /\ pc = "idle"
    /\ LET now == [ut |-> clock, loc |-> cfg.Local]
           r == resolveLocation(cfg.Latitude, cfg.Longitude, cfg.City, cfg.Country,
                                cfg.CacheOK, geoFile, clock, detected, wr)
       IN  /\ geoFile' = r.gf
           /\ trace' = r.events
           /\ IF r.ok
              THEN /\ pc' = "today"
                   /\ inv' = [NewInvocation(cfg, now) EXCEPT !.loc = r.loc]
                   /\ err' = ""
              ELSE /\ pc' = "done"
                   /\ inv' = [NewInvocation(cfg, now) EXCEPT !.state = "Error"]
                   /\ err' = r.err
    /\ out' = <<>>
    /\ UNCHANGED <<clock, files, call>>

\* runNext, state Today: today's timetable, the timezone, the parsed list and the
\* next prayer of today
TodayInMetaTimezone(api, wr) ==
    /\ pc = "today"
    /\ LET cfg == inv.cfg
           r == fetchTimings(files, inv.now, inv.loc, cfg.Method, cfg.School,
                             cfg.CacheOK, api, wr)
       IN  /\ files' = r.fs
           /\ trace' = trace \o r.events
           /\ IF ~r.ok
              THEN /\ pc' = "done" /\ err' = r.err
                   /\ inv' = [inv EXCEPT !.state = "Error"]
              ELSE LET tz == r.result.Meta.Timezone
                       l == LoadLocation(tz)
                       now == TimeIn(inv.now, l.loc)
                       parsed == ParseTimings(r.result.Timings, now, l.loc, inv.selected)
                   IN  IF ~l.ok
                       THEN /\ pc' = "done" /\ err' = "invalid timezone"
                            /\ inv' = [inv EXCEPT !.state = "Error"]
                       ELSE IF ~parsed.ok
                       THEN /\ pc' = "done" /\ err' = parsed.err
                            /\ inv' = [inv EXCEPT !.state = "Error"]
                       ELSE LET next == NextPrayer(parsed.prayers, now) IN
                            /\ err' = ""
                            /\ inv' = [inv EXCEPT !.now = now, !.tzLoc = l.loc,
                                                  !.prayers = parsed.prayers,
                                                  !.next = next]
                            /\ pc' = IF next = Nil THEN "rollover" ELSE "found"
    /\ UNCHANGED <<clock, geoFile, out, call>>

TodayFallingBackOnFailure(api, wr) ==
    /\ pc = "today"
    /\ LET cfg == inv.cfg
           r == fetchTimings(files, inv.now, inv.loc, cfg.Method, cfg.School,
                             cfg.CacheOK, api, wr)
       IN  /\ files' = r.fs
           /\ trace' = trace \o r.events
           /\ IF ~r.ok
              THEN /\ pc' = "rollover" /\ err' = ""
                   /\ inv' = [inv EXCEPT !.tzLoc = "UTC"]
              ELSE LET tz == IF inv.loc.Timezone = "" THEN r.result.Meta.Timezone
                             ELSE inv.loc.Timezone
                       l == LoadLocation(tz)
                       now == TimeIn(inv.now, l.loc)
                       parsed == ParseTimings(r.result.Timings, now, l.loc, inv.selected)
                   IN  IF ~l.ok
                       THEN /\ pc' = "done" /\ err' = "invalid timezone"
                            /\ inv' = [inv EXCEPT !.state = "Error"]
                       ELSE IF ~parsed.ok
                       THEN /\ pc' = "done" /\ err' = parsed.err
                            /\ inv' = [inv EXCEPT !.state = "Error"]
                       ELSE LET next == NextPrayer(parsed.prayers, now) IN
                            /\ err' = ""
                            /\ inv' = [inv EXCEPT !.now = now, !.tzLoc = l.loc,
                                                  !.prayers = parsed.prayers,
                                                  !.next = next]
                            /\ pc' = IF next = Nil THEN "rollover" ELSE "found"
    /\ UNCHANGED <<clock, geoFile, out, call>>

Today(api, wr) ==
    /\ pc = "today"
    /\ LET cfg == inv.cfg
           r == fetchTimings(files, inv.now, inv.loc, cfg.Method, cfg.School,
                             cfg.CacheOK, api, wr)
       IN  /\ files' = r.fs
           /\ trace' = trace \o r.events
           /\ IF ~r.ok
              THEN /\ pc' = "done" /\ err' = r.err
                   /\ inv' = [inv EXCEPT !.state = "Error"]
              ELSE LET tz == IF inv.loc.Timezone = "" THEN r.result.Meta.Timezone
                             ELSE inv.loc.Timezone
                       l == LoadLocation(tz)
                       now == TimeIn(inv.now, l.loc)
                       parsed == ParseTimings(r.result.Timings, now, l.loc, inv.selected)
                   IN  IF ~l.ok
                       THEN /\ pc' = "done" /\ err' = "invalid timezone"
                            /\ inv' = [inv EXCEPT !.state = "Error"]
                       ELSE IF ~parsed.ok
                       THEN /\ pc' = "done" /\ err' = parsed.err
                            /\ inv' = [inv EXCEPT !.state = "Error"]
                       ELSE LET next == NextPrayer(parsed.prayers, now) IN
                            /\ err' = ""
                            /\ inv' = [inv EXCEPT !.now = now, !.tzLoc = l.loc,
                                                  !.prayers = parsed.prayers,
                                                  !.next = next]
                            /\ pc' = IF next = Nil THEN "rollover" ELSE "found"
    /\ UNCHANGED <<clock, geoFile, out, call>>

\* Rollover, were a failed request for tomorrow's timetable made once more
RolloverRetrying(api, wr) ==
    /\ pc = "rollover"
    /\ LET cfg == inv.cfg
           tomorrow == AddDays(inv.now, 1)
           r == fetchTimings(files, tomorrow, inv.loc, cfg.Method, cfg.School,
                             cfg.CacheOK, api, wr)
       IN  /\ files' = r.fs
           /\ trace' = trace \o r.events
           /\ IF ~r.ok /\ trace[Len(trace)].ev # "Fetch"
              THEN out' = out /\ err' = err /\ pc' = pc /\ inv' = inv
              ELSE IF ~r.ok
              THEN IF Len(inv.prayers) > 0
                   THEN /\ out' = DegradedOutput(inv.prayers)
                        /\ err' = ""
                        /\ pc' = "done"
                        /\ inv' = [inv EXCEPT !.tomorrow = tomorrow,
                                              !.state = "DegradedFallback"]
                   ELSE /\ out' = out
                        /\ err' = "failed to fetch tomorrow's times"
                        /\ pc' = "done"
                        /\ inv' = [inv EXCEPT !.tomorrow = tomorrow,
                                              !.state = "Unresolvable"]
              ELSE LET parsed == ParseTimings(r.result.Timings, tomorrow, inv.tzLoc,
                                              inv.selected)
                   IN  IF ~parsed.ok
                       THEN /\ out' = out /\ err' = parsed.err /\ pc' = "done"
                            /\ inv' = [inv EXCEPT !.tomorrow = tomorrow, !.state = "Error"]
                       ELSE IF Len(parsed.prayers) > 0
                       THEN /\ out' = out /\ err' = "" /\ pc' = "found"
                            /\ inv' = [inv EXCEPT !.tomorrow = tomorrow,
                                                  !.next = parsed.prayers[1],
                                                  !.tomorrowPrayers = parsed.prayers]
                       ELSE /\ out' = out
                            /\ err' = "could not determine next prayer"
                            /\ pc' = "done"
                            /\ inv' = [inv EXCEPT !.tomorrow = tomorrow,
                                                  !.state = "Unresolvable"]
    /\ UNCHANGED <<clock, geoFile, call>>

\* runNext, state Rollover: tomorrow's timetable and its first entry
Rollover(api, wr) ==
    /\ pc = "rollover"
    /\ LET cfg == inv.cfg
           tomorrow == AddDays(inv.now, 1)
           r == fetchTimings(files, tomorrow, inv.loc, cfg.Method, cfg.School,
                             cfg.CacheOK, api, wr)
       IN  /\ files' = r.fs
           /\ trace' = trace \o r.events
           /\ IF ~r.ok
              THEN IF Len(inv.prayers) > 0
                   THEN /\ out' = DegradedOutput(inv.prayers)
                        /\ err' = ""
                        /\ pc' = "done"
                        /\ inv' = [inv EXCEPT !.tomorrow = tomorrow,
                                              !.state = "DegradedFallback"]
                   ELSE /\ out' = out
                        /\ err' = "failed to fetch tomorrow's times"
                        /\ pc' = "done"
                        /\ inv' = [inv EXCEPT !.tomorrow = tomorrow,
                                              !.state = "Unresolvable"]
              ELSE LET parsed == ParseTimings(r.result.Timings, tomorrow, inv.tzLoc,
                                              inv.selected)
                   IN  IF ~parsed.ok
                       THEN /\ out' = out /\ err' = parsed.err /\ pc' = "done"
                            /\ inv' = [inv EXCEPT !.tomorrow = tomorrow, !.state = "Error"]
                       ELSE IF Len(parsed.prayers) > 0
                       THEN /\ out' = out /\ err' = "" /\ pc' = "found"
                            /\ inv' = [inv EXCEPT !.tomorrow = tomorrow,
                                                  !.next = parsed.prayers[1],
                                                  !.tomorrowPrayers = parsed.prayers]
                       ELSE /\ out' = out
                            /\ err' = "could not determine next prayer"
                            /\ pc' = "done"
                            /\ inv' = [inv EXCEPT !.tomorrow = tomorrow,
                                                  !.state = "Unresolvable"]
    /\ UNCHANGED <<clock, geoFile, call>>

\* runNext, state Found: format and print
Found ==
    /\ pc = "found"
    /\ out' = FormatOutput(inv.next, inv.now, inv.cfg.Format, GoTimeFmt(inv.cfg))
    /\ err' = ""
    /\ pc' = "done"
    /\ inv' = [inv EXCEPT !.state = "Found"]
    /\ UNCHANGED <<clock, files, geoFile, trace, call>>

\* the process exits
Exit ==
    /\ pc = "done"
    /\ pc' = "idle"
    /\ inv' = NoInvocation
    /\ trace' = <<>>
    /\ out' = <<>>
    /\ err' = ""
    /\ UNCHANGED <<clock, files, geoFile, call>>

----------------------------------------------------------------------------
(* the list command: whole months from the calendar endpoint               *)

\* the months around day 0 of the model, which is 27 February 2026; first is the
\* day number of the first of the month
MonthTable ==
    {[year |-> 2026, month |-> 1, len |-> 31, first |-> -57],
     [year |-> 2026, month |-> 2, len |-> 28, first |-> -26],
     [year |-> 2026, month |-> 3, len |-> 31, first |-> 2],
     [year |-> 2026, month |-> 4, len |-> 30, first |-> 33]}

\* the month a day number falls in
MonthOfDay(day) == CHOOSE m \in MonthTable : m.first <= day /\ day < m.first + m.len

\* d.Year(), int(d.Month()): the yearMonth of an instant in its own zone
YearMonthOf(t) == <<MonthOfDay(DayOf(t)).year, MonthOfDay(DayOf(t)).month>>

\* d.Day()
DayOfMonth(t) == DayOf(t) - MonthOfDay(DayOf(t)).first + 1

\* the days a calendar response holds, one api.Data per day; a calendar request
\* ends with an error ("fail"), with every day of the month ("ok"), or with a
\* list that stops short of the end of the month ("short")
CalendarDays(ym, meta, outcome) ==
    LET m == CHOOSE mm \in MonthTable : mm.year = ym[1] /\ mm.month = ym[2]
        n == IF outcome = "short" THEN m.len - 1 ELSE m.len
    IN  [i \in 1..n |->
            [Timings |-> ProviderTimings(<<m.first + i - 1>>, "ok"), Meta |-> meta,
             Date |-> [Readable |-> <<m.first + i - 1>>]]]

\* client.FetchCalendarByCoordinates
FetchCalendarByCoordinates(ym, lat, lon, method, school, outcome) ==
    IF outcome = "fail" THEN [ok |-> FALSE]
    ELSE [ok |-> TRUE,
          resp |-> [Code |-> 200,
                    Data |-> CalendarDays(ym, MetaOf(EchoCoord(lat), EchoCoord(lon),
                                                     ProviderZone(lat, lon, ""),
                                                     method, school), outcome)]]

\* client.FetchCalendarByCity
FetchCalendarByCity(ym, city, country, method, school, outcome) ==
    IF outcome = "fail" THEN [ok |-> FALSE]
    ELSE [ok |-> TRUE,
          resp |-> [Code |-> 200,
                    Data |-> CalendarDays(ym, MetaOf(EchoCoord(LondonLat),
                                                     EchoCoord(LondonLon),
                                                     ProviderZone(0, 0, city),
                                                     method, school), outcome)]]

\* calendarKey: the string that is hashed; the year and month stand where
\* cacheKey has the date, and the pair also stands for the "calendar_" prefix of
\* the file name
calendarKeyWithoutSchool(ym, lat, lon, city, country, method, school) ==
    <<ym, lat, lon, city, country, method>>

calendarKey(ym, lat, lon, city, country, method, school) ==
    <<ym, lat, lon, city, country, method, school>>

\* json.Unmarshal(data, &entry) into a CalendarCacheEntry
UnmarshalCalendarEntry(data) ==
    IF data.kind # "json" THEN [ok |-> FALSE]
    ELSE [ok |-> TRUE,
          entry |-> [Year |-> Field(data.obj, "year", 0),
                     Month |-> Field(data.obj, "month", 0),
                     Days |-> Field(data.obj, "days", <<>>)]]

\* LoadCalendar on the cache directory fs: the entry, or Nil
LoadCalendar(fs, ym, lat, lon, city, country, method, school) ==
    LET path == calendarKey(ym, lat, lon, city, country, method, school)
    IN  IF path \notin DOMAIN fs THEN Nil
        ELSE LET u == UnmarshalCalendarEntry(fs[path]) IN
             IF ~u.ok THEN Nil
             ELSE IF u.entry.Year # ym[1] \/ u.entry.Month # ym[2] THEN Nil
             ELSE u.entry

\* SaveCalendar: the cache directory afterwards
SaveCalendar(fs, ym, lat, lon, city, country, method, school, resp, outcome) ==
    WriteFile(fs, calendarKey(ym, lat, lon, city, country, method, school),
              JsonObject([year |-> ym[1], month |-> ym[2], days |-> resp.Data]),
              outcome)

\* the yearMonths of the days start, start + 1, ..., start + days - 1
NeededMonths(start, days) == {YearMonthOf(AddDays(start, i)) : i \in 0..(days - 1)}

\* the orders in which a range over the map needed may visit its keys
RangeOrders(needed) ==
    {o \in [1..Cardinality(needed) -> needed] :
        \A i, j \in 1..Cardinality(needed) : i # j => o[i] # o[j]}

\* the provider call of fetchCalendarDays, by loc.Mode
FetchCalendarFromApi(ym, loc, method, school, api) ==
    IF loc.Mode = "city"
    THEN FetchCalendarByCity(ym, loc.City, loc.Country, method, school, api)
    ELSE FetchCalendarByCoordinates(ym, loc.Lat, loc.Lon, method, school, api)

\* the first loop of fetchCalendarDays from the i-th month of order on: each month
\* from the cache or from the provider; apis[i] and wrs[i] are how the request and
\* the write for the i-th month end
RECURSIVE FetchMonths(_, _, _, _, _, _, _, _, _, _, _)
FetchMonths(fs, order, i, loc, method, school, c, apis, wrs, monthData, events) ==
    IF i > Len(order) THEN [ok |-> TRUE, fs |-> fs, events |-> events,
                            monthData |-> monthData]
    ELSE LET ym == order[i]
             path == calendarKey(ym, loc.Lat, loc.Lon, loc.City, loc.Country,
                                 method, school)
             entry == IF c
                      THEN LoadCalendar(fs, ym, loc.Lat, loc.Lon, loc.City, loc.Country,
                                        method, school)
                      ELSE Nil
             loadEv == IF c
                       THEN <<[ev |-> "LoadCalendar", ym |-> ym,
                               file |-> IF path \in DOMAIN fs THEN fs[path].kind
                                        ELSE "absent",
                               hit |-> entry # Nil]>>
                       ELSE <<>>
             fetched == FetchCalendarFromApi(ym, loc, method, school, apis[i])
             apiEv == <<[ev |-> "FetchCalendar", ym |-> ym, by |-> loc.Mode,
                         ok |-> fetched.ok]>>
         IN  IF entry # Nil
             THEN FetchMonths(fs, order, i + 1, loc, method, school, c, apis, wrs,
                              [m \in DOMAIN monthData \cup {ym} |->
                                  IF m = ym THEN entry.Days ELSE monthData[m]],
                              events \o loadEv)
             ELSE IF ~fetched.ok
             THEN [ok |-> FALSE, fs |-> fs, events |-> events \o loadEv \o apiEv,
                   err |-> <<"failed to fetch calendar for ", ym>>]
             ELSE FetchMonths(IF c
                              THEN SaveCalendar(fs, ym, loc.Lat, loc.Lon, loc.City,
                                                loc.Country, method, school,
                                                fetched.resp, wrs[i])
                              ELSE fs,
                              order, i + 1, loc, method, school, c, apis, wrs,
                              [m \in DOMAIN monthData \cup {ym} |->
                                  IF m = ym THEN fetched.resp.Data ELSE monthData[m]],
                              events \o loadEv \o apiEv
                                  \o (IF c THEN <<[ev |-> "SaveCalendar", ym |-> ym,
                                                   outcome |-> wrs[i]]>>
                                      ELSE <<>>))

\* the second loop of fetchCalendarDays from day start + i on: the days in order
AssembleDaysByPosition(monthData, start, days, i) ==
    [ok |-> TRUE,
     result |-> [k \in 1..(days - i) |->
                    LET d == AddDays(start, i + k - 1)
                        daysInMonth == monthData[YearMonthOf(d)]
                    IN  [Date |-> d, Timings |-> daysInMonth[k].Timings,
                         DateInfo |-> daysInMonth[k].Date, Meta |-> daysInMonth[k].Meta]]]

RECURSIVE AssembleDaysSkippingMissing(_, _, _, _)
AssembleDaysSkippingMissing(monthData, start, days, i) ==
    IF i >= days THEN [ok |-> TRUE, result |-> <<>>]
    ELSE LET d == AddDays(start, i)
             daysInMonth == monthData[YearMonthOf(d)]
             dayIdx == DayOfMonth(d) - 1
             rest == AssembleDaysSkippingMissing(monthData, start, days, i + 1)
         IN  IF dayIdx < 0 \/ dayIdx >= Len(daysInMonth) THEN rest
             ELSE [ok |-> TRUE,
                   result |-> <<[Date |-> d,
                                 Timings |-> daysInMonth[dayIdx + 1].Timings,
                                 DateInfo |-> daysInMonth[dayIdx + 1].Date,
                                 Meta |-> daysInMonth[dayIdx + 1].Meta]>>
                              \o rest.result]

RECURSIVE AssembleDays(_, _, _, _)
AssembleDays(monthData, start, days, i) ==
    IF i >= days THEN [ok |-> TRUE, result |-> <<>>]
    ELSE LET d == AddDays(start, i)
             daysInMonth == monthData[YearMonthOf(d)]
             dayIdx == DayOfMonth(d) - 1
         IN  IF dayIdx < 0 \/ dayIdx >= Len(daysInMonth)
             THEN [ok |-> FALSE, err |-> <<"day out of range for ", YearMonthOf(d)>>]
             ELSE LET rest == AssembleDays(monthData, start, days, i + 1) IN
                  IF ~rest.ok THEN rest
                  ELSE [ok |-> TRUE,
                        result |-> <<[Date |-> d,
                                      Timings |-> daysInMonth[dayIdx + 1].Timings,
                                      DateInfo |-> daysInMonth[dayIdx + 1].Date,
                                      Meta |-> daysInMonth[dayIdx + 1].Meta]>>
                                   \o rest.result]

\* fetchCalendarDays(start, days, loc, method, school, c) on the cache directory fs
fetchCalendarDays(fs, start, days, loc, method, school, c, order, apis, wrs) ==
    LET months == FetchMonths(fs, order, 1, loc, method, school, c, apis, wrs,
                              <<>>, <<>>)
    IN  IF ~months.ok THEN months
        ELSE LET assembled == AssembleDays(months.monthData, start, days, 0) IN
             IF ~assembled.ok
             THEN [ok |-> FALSE, fs |-> months.fs, events |-> months.events,
                   err |-> assembled.err]
             ELSE [ok |-> TRUE, fs |-> months.fs, events |-> months.events,
                   result |-> assembled.result]

----------------------------------------------------------------------------
(* state shared by the specifications                                      *)

\* an empty cache directory, no command running
EmptyDir ==
    /\ files = <<>>
    /\ geoFile = NoFile
    /\ pc = "idle"
    /\ inv = NoInvocation
    /\ trace = <<>>
    /\ out = <<>>
    /\ err = ""

SysInit == clock = 0 /\ EmptyDir

NoCall == [fn |-> "none"]

RECURSIVE SeqsUpTo(_, _)
SeqsUpTo(S, n) ==
    IF n = 0 THEN {<<>>}
    ELSE LET shorter == SeqsUpTo(S, n - 1) IN
         shorter \cup {Append(q, x) : q \in {r \in shorter : Len(r) = n - 1}, x \in S}

----------------------------------------------------------------------------
(* package config: strings are sequences of tokens, one character each, or  *)
(* a whole word where the code only copies or compares it; a float64 is an  *)
(* integer count of 1e-7, as the coordinates above                          *)

\* strconv.ParseFloat(s, 64) on decimal notation: an optional sign, digits, and
\* an optional point with digits (no exponent, no Inf or NaN among the inputs)
ParseFloat(s) ==
    LET signed == s # <<>> /\ Head(s) \in {"+", "-"}
        body == IF signed THEN Tail(s) ELSE s
        dot == IndexOf(body, ".")
        int == IF dot = 0 THEN body ELSE SubSeq(body, 1, dot - 1)
        frac == IF dot = 0 THEN <<>> ELSE SubSeq(body, dot + 1, Len(body))
        padded == frac \o [i \in 1..(7 - Len(frac)) |-> "0"]
    IN  IF \/ Len(int) + Len(frac) = 0 \/ Len(int) > 3 \/ Len(frac) > 7
           \/ \E i \in 1..Len(int) : ~IsDigit(int[i])
           \/ \E i \in 1..Len(frac) : ~IsDigit(frac[i])
        THEN [ok |-> FALSE, v |-> 0]
        ELSE [ok |-> TRUE,
              v |-> (IF signed /\ Head(s) = "-" THEN -1 ELSE 1)
                        * (DecimalValue(int) * 10000000 + DecimalValue(padded))]

\* strconv.Itoa(n)
RECURSIVE Itoa(_)
Itoa(n) ==
    IF n < 0 THEN <<"-">> \o Itoa(-n)
    ELSE IF n < 10 THEN <<Digits[n + 1]>>
    ELSE Itoa(n \div 10) \o <<Digits[(n % 10) + 1]>>

\* strconv.FormatFloat(v, 'f', -1, 64): the shortest decimal that reads back as v
FormatFloat(v) ==
    LET a == IF v < 0 THEN -v ELSE v
        frac == Itoa(10000000 + (a % 10000000))
        last == CHOOSE k \in 1..8 :
                    /\ k = 1 \/ frac[k] # "0"
                    /\ \A j \in (k + 1)..8 : frac[j] = "0"
    IN  (IF v < 0 THEN <<"-">> ELSE <<>>) \o Itoa(a \div 10000000)
            \o (IF last = 1 THEN <<>> ELSE <<".">> \o SubSeq(frac, 2, last))

\* strconv.Atoi(s): an optional sign and digits, nothing else
Atoi(s) ==
    LET signed == s # <<>> /\ Head(s) \in {"+", "-"}
        body == IF signed THEN Tail(s) ELSE s
    IN  IF body = <<>> \/ DigitPrefix(body) # body THEN [ok |-> FALSE, v |-> 0]
        ELSE [ok |-> TRUE,
              v |-> (IF signed /\ Head(s) = "-" THEN -1 ELSE 1) * DecimalValue(body)]

\* Config.Set(key, value): the Config afterwards and the error ("" for nil)
Set(c, key, value) ==
    CASE key = "city" -> [c |-> [c EXCEPT !.City = value], err |-> ""]
      [] key = "country" -> [c |-> [c EXCEPT !.Country = value], err |-> ""]
      [] key = "latitude" ->
            LET f == ParseFloat(value) IN
            IF ~f.ok THEN [c |-> c, err |-> "invalid latitude: must be a number"]
            ELSE IF f.v < -90 * 10000000 \/ f.v > 90 * 10000000
            THEN [c |-> c, err |-> "invalid latitude: must be between -90 and 90"]
            ELSE [c |-> [c EXCEPT !.Latitude = f.v], err |-> ""]
      [] key = "longitude" ->
            LET f == ParseFloat(value) IN
            IF ~f.ok THEN [c |-> c, err |-> "invalid longitude: must be a number"]
            ELSE IF f.v < -180 * 10000000 \/ f.v > 180 * 10000000
            THEN [c |-> c, err |-> "invalid longitude: must be between -180 and 180"]
            ELSE [c |-> [c EXCEPT !.Longitude = f.v], err |-> ""]
      [] key = "method" ->
            LET n == Atoi(value) IN
            IF ~n.ok THEN [c |-> c, err |-> "invalid method: must be an integer"]
            ELSE IF n.v < 0 \/ n.v > 23
            THEN [c |-> c, err |-> "invalid method: must be between 0 and 23"]
            ELSE [c |-> [c EXCEPT !.Method = <<n.v>>], err |-> ""]
      [] key = "school" ->
            LET n == Atoi(value) IN
            IF ~n.ok THEN [c |-> c, err |-> "invalid school: must be an integer"]
            ELSE IF n.v # 0 /\ n.v # 1
            THEN [c |-> c, err |-> "invalid school: must be 0 (Shafi) or 1 (Hanafi)"]
            ELSE [c |-> [c EXCEPT !.School = <<n.v>>], err |-> ""]
      [] key = "time_format" ->
            IF value # <<"12h">> /\ value # <<"24h">>
            THEN [c |-> c, err |-> "invalid time_format"]
            ELSE [c |-> [c EXCEPT !.TimeFormat = value], err |-> ""]
      [] key = "prayers" ->
            LET names == Split(value, ",") IN
            IF \E i \in 1..Len(names) :
                ~(Len(TrimSpace(names[i])) = 1 /\ TrimSpace(names[i])[1] \in KnownNames)
            THEN [c |-> c, err |-> "invalid prayer name in prayers list"]
            ELSE [c |-> [c EXCEPT !.Prayers = value], err |-> ""]
      [] key = "cache_dir" -> [c |-> [c EXCEPT !.CacheDir = value], err |-> ""]
      [] OTHER -> [c |-> c, err |-> "unknown config key"]

\* Config.Get(key): the value string and the error ("" for nil)
Get(c, key) ==
    CASE key = "city" -> [s |-> c.City, err |-> ""]
      [] key = "country" -> [s |-> c.Country, err |-> ""]
      [] key = "latitude" ->
            [s |-> IF c.Latitude = 0 THEN <<>> ELSE FormatFloat(c.Latitude), err |-> ""]
      [] key = "longitude" ->
            [s |-> IF c.Longitude = 0 THEN <<>> ELSE FormatFloat(c.Longitude), err |-> ""]
      [] key = "method" ->
            [s |-> IF c.Method = <<>> THEN <<>> ELSE Itoa(c.Method[1]), err |-> ""]
      [] key = "school" ->
            [s |-> IF c.School = <<>> THEN <<>> ELSE Itoa(c.School[1]), err |-> ""]
      [] key = "time_format" -> [s |-> c.TimeFormat, err |-> ""]
      [] key = "prayers" -> [s |-> c.Prayers, err |-> ""]
      [] key = "cache_dir" -> [s |-> c.CacheDir, err |-> ""]
      [] OTHER -> [s |-> <<>>, err |-> "unknown config key"]

----------------------------------------------------------------------------
(* library calls of packages prayer and cache on enumerated arguments      *)

MaxLen == 3

MaxTime == 3

UTCTime(m) == [ut |-> m, loc |-> "UTC"]

PrayerValues == [Name : {"Fajr", "Isha"}, Time : {UTCTime(m) : m \in 0..MaxTime}]

PrayerLists == SeqsUpTo(PrayerValues, MaxLen)

\* the arguments of one library call, drawn by Init; the call is then applied
NextPrayerArgs ==
    [fn : {"NextPrayer"}, done : {FALSE}, prayers : PrayerLists,
     now : {UTCTime(m) : m \in 0..(MaxTime + 1)}]

CallNextPrayer ==
    /\ call.fn = "NextPrayer" /\ ~call.done
    /\ call' = [fn |-> "NextPrayer", done |-> TRUE, prayers |-> call.prayers,
                now |-> call.now, res |-> NextPrayer(call.prayers, call.now)]
    /\ UNCHANGED sysvars

\* the parameter tuples of cacheKey: dates as formatted strings, coordinates
\* that agree or differ at the sixth decimal, cities and countries with and
\* without the separator "|"
KeyTuples ==
    [date : {<<0>>, <<1>>}, lat : {LondonLat, LondonLat + 1, LondonLat + 5},
     lon : {LondonLon}, city : {"", "a", "a|b"}, country : {"", "c", "b|c"},
     method : {2, 3}, school : {0, 1}]

\* cacheKey on two parameter tuples p and q
CallCacheKey ==
    /\ call.fn = "cacheKey" /\ ~call.done
    /\ call' = [call EXCEPT !.done = TRUE] @@
               [kp |-> cacheKey(call.p.date, call.p.lat, call.p.lon, call.p.city,
                                call.p.country, call.p.method, call.p.school),
                kq |-> cacheKey(call.q.date, call.q.lat, call.q.lon, call.q.city,
                                call.q.country, call.q.method, call.q.school)]
    /\ UNCHANGED sysvars

\* durations around the whole minutes and hours: 0h, 1h, 2h, 4095h, 4096h and
\* 4097h, plus 0, 44 or 59 minutes, plus 0 or 59 seconds, plus 0 ns, 1 ns or
\* 999999999 ns, and two negative ones
Durations ==
    {[sec |-> (h * MinutesPerHour + m) * SecondsPerMinute + s, ns |-> n] :
        h \in {0, 1, 2, 4095, 4096, 4097}, m \in {0, 44, 59}, s \in {0, 59},
        n \in {0, 1, 999999999}}
    \cup {[sec |-> -30 * SecondsPerMinute, ns |-> 0], [sec |-> -1, ns |-> 999999999]}

\* FormatRemaining on two durations d and d2
CallFormatRemaining ==
    /\ call.fn = "FormatRemaining" /\ ~call.done
    /\ call' = [call EXCEPT !.done = TRUE] @@
               [res |-> FormatRemaining(call.d), res2 |-> FormatRemaining(call.d2)]
    /\ UNCHANGED sysvars

\* the format modes: the seven names, other mode strings without "{{", and
\* templates that execute, that do not parse, and that refer to a field that
\* FormatData does not have
FormatModes ==
    {<<"time-remaining">>, <<"next-prayer-time">>, <<"name-and-time">>,
     <<"name-and-remaining">>, <<"short-name-and-time">>,
     <<"short-name-and-remaining">>, <<"full">>,
     <<"nonexistent-format">>, <<>>, <<"Full">>, <<"}}">>, <<"name", "}}">>,
     <<"{{", "Name", "}}", " in ", "{{", "Remaining", "}}">>,
     <<"{{", "Hours", "}}", "h ", "{{", "Minutes", "}}", "m until ", "{{", "Name", "}}">>,
     <<"{{", "Name", "}}", "|", "{{", "ShortName", "}}", "|", "{{", "Time", "}}", "|",
       "{{", "Remaining", "}}", "|", "{{", "Hours", "}}", "|", "{{", "Minutes", "}}">>,
     <<"{{", "Invalid">>, <<"{{">>, <<"{{", "}}">>, <<"{{", "{{", "Name", "}}">>,
     <<"{{", "Name", "}}", " ", "{{", "Time">>,
     <<"{{", "NonExistent", "}}">>,
     <<"{{", "Name", "}}", " ", "{{", "Time", "}}", " ", "{{", "NonExistent", "}}">>}

\* FormatOutput for Asr at 15:02, before and after that time
CallFormatOutput ==
    /\ call.fn = "FormatOutput" /\ ~call.done
    /\ call' = [call EXCEPT !.done = TRUE] @@
               [res |-> FormatOutput(call.p, call.now, call.mode, call.timeFormat)]
    /\ UNCHANGED sysvars

\* the time strings parseTimeStr is called with: HH:MM with and without blanks
\* and a timezone suffix around it (hh and mm say which), and strings that are
\* no HH:MM (hh = -1)
TimeStrings ==
    {[raw |-> pre \o TimeStr(h, m) \o sfx, hh |-> h, mm |-> m] :
        h \in {0, 2, 5, 15, 23}, m \in {0, 17, 30, 59},
        pre \in {<<>>, <<" ", " ">>},
        sfx \in {<<>>, <<" ", "(", "B", "S", "T", ")">>,
                 <<" ", " ", "(", "E", "E", "T", ")", " ">>}}
    \cup {[raw |-> r, hh |-> -1, mm |-> -1] :
            r \in {<<>>, <<"b", "a", "d">>, <<"1", "5", ":">>, <<"a", "b", ":", "c", "d">>,
                   <<":", "3", "0">>, <<"1", "5", ":", "0", "2", ":", "0", "0">>,
                   <<"1", "x", ":", "3", "0">>, <<"1", "5", ":", "0", "2", "a", "m">>,
                   <<"-", "5", ":", "3", "0">>, <<"+", "5", ":", "3", "0">>,
                   <<"1", "5", " ", ":", "0", "2">>, <<"1", "5", ":", "\t", "0", "2">>,
                   <<"x", "1", ":", "3", "0">>, <<"1", "5", ":", " ", "0", "2">>}}

\* parseTimeStr on a time string, a date and a location
CallParseTimeStr ==
    /\ call.fn = "parseTimeStr" /\ ~call.done
    /\ call' = [call EXCEPT !.done = TRUE] @@
               [res |-> parseTimeStr(call.s.raw, call.date, call.loc)]
    /\ UNCHANGED sysvars

\* ParseTimings on a timetable, a date, a location and a list of selected names
CallParseTimings ==
    /\ call.fn = "ParseTimings" /\ ~call.done
    /\ call' = [call EXCEPT !.done = TRUE] @@
               [res |-> ParseTimings(call.timings, call.date, call.loc, call.selected)]
    /\ UNCHANGED sysvars

\* Set on an empty Config, then Get of the same key
CallSetThenGet ==
    /\ call.fn = "Set" /\ ~call.done
    /\ LET set == Set([City |-> <<>>, Country |-> <<>>, Latitude |-> 0, Longitude |-> 0,
                       Method |-> <<>>, School |-> <<>>, TimeFormat |-> <<>>,
                       Prayers |-> <<>>, CacheDir |-> <<>>], call.key, call.value)
       IN  call' = [call EXCEPT !.done = TRUE] @@
                   [err |-> set.err, cfg |-> set.c, got |-> Get(set.c, call.key)]
    /\ UNCHANGED sysvars

InitPure ==
    /\ SysInit
    /\ \/ call \in NextPrayerArgs
       \/ call \in [fn : {"Set"}, done : {FALSE},
                    key : {"city", "country", "latitude", "longitude", "method",
                           "school", "time_format", "prayers", "cache_dir", "bogus"},
                    value : {<<>>, <<"Riyadh">>, <<"Saudi Arabia">>, <<"/tmp/cache">>,
                             <<"0">>, <<"1">>, <<"4">>, <<"2", "3">>, <<"2", "4">>,
                             <<"0", "7">>, <<"+", "5">>, <<"-", "1">>,
                             <<"2", "4", ".", "7", "1", "3", "6">>,
                             <<"-", "3", "3", ".", "8", "6", "8", "8">>,
                             <<"5", "1", ".", "5", "0">>, <<"0", ".", "0">>,
                             <<"9", "0">>, <<"-", "9", "0">>, <<"9", "1">>,
                             <<"1", "8", "0">>, <<"-", "1", "8", "1">>,
                             <<"a", "b", "c">>, <<"12h">>, <<"24h">>, <<"1", "2", "H">>,
                             <<"Fajr", ",", "Dhuhr", ",", "Asr", ",", "Maghrib", ",", "Isha">>,
                             <<"Fajr", ",", " ", "Isha">>, <<"Fajr", ",", "Tahajjud">>}]
       \/ call \in [fn : {"ParseTimings"}, done : {FALSE},
                    timings : {[SampleTimings(0) EXCEPT !.Dhuhr = r] :
                                r \in {TimeStr(12, 13), <<"1", "5", ":">>,
                                       <<"b", "a", "d">>, <<"1", "x", ":", "3", "0">>}},
                    date : {UTCTime(0), [ut |-> MinutesPerDay, loc |-> "Riyadh"]},
                    loc : {"UTC", "Riyadh"},
                    selected : SeqsUpTo({"Fajr", "Dhuhr", "Isha", "Midnight", "Jumuah"},
                                        MaxLen) \ {<<>>}]
       \/ call \in [fn : {"parseTimeStr"}, done : {FALSE}, s : TimeStrings,
                    date : {UTCTime(23 * MinutesPerHour + 30),
                            [ut |-> MinutesPerDay, loc |-> "Riyadh"],
                            [ut |-> 9 * MinutesPerDay + 12 * MinutesPerHour,
                             loc |-> "NewYork"]},
                    loc : DOMAIN ZoneOffsets]
       \/ call \in [fn : {"cacheKey"}, done : {FALSE}, p : KeyTuples, q : KeyTuples]
       \/ call \in [fn : {"FormatRemaining"}, done : {FALSE}, d : Durations,
                    d2 : Durations]
       \/ call \in [fn : {"FormatOutput"}, done : {FALSE},
                    p : {[Name |-> n, Time |-> UTCTime(15 * MinutesPerHour + 2)] :
                           n \in {"Asr", "Duha"}},
                    now : {UTCTime(12 * MinutesPerHour + 47),
                           UTCTime(16 * MinutesPerHour + 32)},
                    mode : FormatModes, timeFormat : {"15:04", "3:04 PM"}]

NextPure ==
    \/ CallNextPrayer
    \/ CallCacheKey
    \/ CallFormatRemaining
    \/ CallFormatOutput
    \/ CallParseTimeStr
    \/ CallParseTimings
    \/ CallSetThenGet

SpecPure == InitPure /\ [][NextPure]_vars

\* C1: NextPrayer(prayers, now) returns the first element in list order whose
\* Time is strictly after now, and returns nil exactly when no element's Time is
\* after now (the empty list, or now at or after every time of the list).
C1_NextPrayerFirstStrictlyAfter ==
    (call.fn = "NextPrayer" /\ call.done) =>
        LET ps == call.prayers
            later == {i \in 1..Len(ps) : ps[i].Time.ut > call.now.ut}
        IN  /\ (call.res = Nil) <=> (later = {})
            /\ later # {} =>
                 call.res = ps[CHOOSE i \in later : \A j \in later : i <= j]

\* C1's case: an element at exactly now is passed over and a later one returned.
C1_Witness ==
    /\ call.fn = "NextPrayer" /\ call.done
    /\ Len(call.prayers) >= 2
    /\ call.prayers[1].Time.ut = call.now.ut
    /\ call.res # Nil
    /\ call.res = call.prayers[2]

\* C12: cacheKey gives two parameter tuples (date, lat, lon, city, country,
\* method, school) the same pre-hash string if and only if the tuples are equal
C12_KeyInjectiveInTuple ==
    (call.fn = "cacheKey" /\ call.done) =>
        ((call.kp = call.kq) <=> (call.p = call.q))

\* the rendering C18 describes: whole minutes below an hour, truncated whole
\* hours and the whole minutes mod 60 from an hour on
Rendering(d) ==
    IF d.sec < 0 THEN <<0, "m">>
    ELSE IF d.sec < MinutesPerHour * SecondsPerMinute
    THEN <<d.sec \div SecondsPerMinute, "m">>
    ELSE <<d.sec \div (MinutesPerHour * SecondsPerMinute), "h ",
           (d.sec \div SecondsPerMinute) % 60, "m">>

\* the minutes a rendered string stands for
RenderedMinutes(r) == IF Len(r) = 2 THEN r[1] ELSE r[1] * 60 + r[3]

\* C18: FormatRemaining(d) is "0m" for d < 0, "Nm" with N the whole minutes for
\* 0 <= d < 1h, and "Hh Mm" with H the truncated whole hours and M the whole
\* minutes mod 60 for d >= 1h, and the (H, M) rendered does not decrease when d
\* grows
C18_FormatRemainingTruncatesMonotone ==
    (call.fn = "FormatRemaining" /\ call.done) =>
        /\ call.res = Rendering(call.d)
        /\ call.res2 = Rendering(call.d2)
        /\ (\/ call.d.sec < call.d2.sec
            \/ call.d.sec = call.d2.sec /\ call.d.ns <= call.d2.ns)
           => RenderedMinutes(call.res) <= RenderedMinutes(call.res2)

\* a completed call of FormatOutput
Formatted == call.fn = "FormatOutput" /\ call.done

\* the mode string holds "{{"
IsTemplate(mode) == \E i \in 1..Len(mode) : mode[i] = "{{"

\* C19: for a mode without "{{", FormatOutput returns the composition that one
\* of the seven mode names selects, and the name-and-time composition for every
\* other mode, never an error
C19_SevenModesElseNameAndTime ==
    (Formatted /\ ~IsTemplate(call.mode)) =>
        LET remaining == FormatRemaining([sec |-> Sub(call.p.Time, call.now)
                                                  * SecondsPerMinute, ns |-> 0])
            timeStr == FormatClock(call.p.Time, call.timeFormat)
            short == IF call.p.Name \in DOMAIN ShortNames
                     THEN ShortNames[call.p.Name] ELSE ""
            nameAndTime == <<call.p.Name, " ", timeStr>>
            canned == [m \in {"time-remaining", "next-prayer-time", "name-and-time",
                              "name-and-remaining", "short-name-and-time",
                              "short-name-and-remaining", "full"} |->
                         CASE m = "time-remaining" -> <<remaining>>
                           [] m = "next-prayer-time" -> <<timeStr>>
                           [] m = "name-and-time" -> nameAndTime
                           [] m = "name-and-remaining" -> <<call.p.Name, " ", remaining>>
                           [] m = "short-name-and-time" -> <<short, " ", timeStr>>
                           [] m = "short-name-and-remaining" -> <<short, " ", remaining>>
                           [] m = "full" ->
                                <<call.p.Name, " ", timeStr, " (", remaining, ")">>]
        IN  IF Len(call.mode) = 1 /\ call.mode[1] \in DOMAIN canned
            THEN call.res = canned[call.mode[1]]
            ELSE call.res = nameAndTime

\* a mode that is none of the seven names and holds no "{{" prints name and time
C19_Witness ==
    /\ Formatted
    /\ call.mode = <<"nonexistent-format">>
    /\ call.p.Name = "Asr" /\ call.timeFormat = "15:04"
    /\ call.res = <<"Asr", " ", <<15, ":", 2>>>>

\* some action of the template is not closed, is empty, or names a field that
\* FormatData does not have
TemplateFails(mode) ==
    \E i \in 1..Len(mode) :
        /\ mode[i] = "{{"
        /\ \/ i + 2 > Len(mode)
           \/ mode[i + 2] # "}}"
           \/ mode[i + 1] \in {"{{", "}}"}
           \/ mode[i + 1] \notin {"Name", "ShortName", "Time", "Remaining", "Hours",
                                  "Minutes"}

\* C20: for a mode with "{{" whose template does not parse or does not execute,
\* FormatOutput returns "template-err:" followed by the error and nothing of
\* what the template had rendered up to the failure
C20_TemplateFailureIsDiagnosticOnly ==
    (Formatted /\ IsTemplate(call.mode) /\ TemplateFails(call.mode)) =>
        /\ Len(call.res) = 2
        /\ call.res[1] = "template-err: "
        /\ call.res[2] \in {"unclosed action", "missing value for command",
                            "unexpected {{ in command",
                            "can't evaluate field NonExistent"}

\* a template whose first two actions rendered the name and the time before the
\* third one failed
C20_Witness ==
    /\ Formatted
    /\ call.mode = <<"{{", "Name", "}}", " ", "{{", "Time", "}}", " ",
                     "{{", "NonExistent", "}}">>
    /\ call.res = <<"template-err: ", "can't evaluate field NonExistent">>

\* a completed call of parseTimeStr on a string written from hour hh, minute mm
ParsedHHMM == call.fn = "parseTimeStr" /\ call.done /\ call.s.hh >= 0

\* the wall-clock time hh:mm of that day exists in the zone: some instant reads so
WallClockExists(day, hh, mm, loc) ==
    \E off \in {ZoneOffsets[loc], ZoneOffsets[loc] + MinutesPerHour} :
        ZoneOffset(loc, day * MinutesPerDay + hh * MinutesPerHour + mm - off) = off

FirstToken(raw) ==
    LET t == TrimLeft(raw)
        ends == {i \in 1..Len(t) : IsSpace(t[i])}
    IN  IF ends = {} THEN t
        ELSE SubSeq(t, 1, (CHOOSE i \in ends : \A j \in ends : i <= j) - 1)

\* a token that is exactly two base-10 integers separated by one colon
TwoIntegers(tok) ==
    \E i \in 2..(Len(tok) - 1) :
        /\ tok[i] = ":"
        /\ \A j \in (1..Len(tok)) \ {i} : IsDigit(tok[j])

\* a completed call of ParseTimings
ParsedTimings == call.fn = "ParseTimings" /\ call.done

\* C22: parseTimeStr fails with a malformed-time error on every string whose
\* first whitespace-delimited token is not two base-10 integers separated by one
\* colon, and ParseTimings returns an error and no list when a selected event
\* has such a string
C22_MalformedTimeFails ==
    /\ (call.fn = "parseTimeStr" /\ call.done /\ ~TwoIntegers(FirstToken(call.s.raw)))
            => (~call.res.ok /\ call.res.err \in
                    {"invalid time format", "invalid hour", "invalid minute"})
    /\ (ParsedTimings /\ \E i \in 1..Len(call.selected) :
                            /\ call.selected[i] \in DOMAIN call.timings
                            /\ ~TwoIntegers(FirstToken(call.timings[call.selected[i]])))
            => (~call.res.ok /\ "prayers" \notin DOMAIN call.res)

\* the position of a name in AllPrayerNames
CanonicalIndex(name) == CHOOSE i \in 1..Len(AllPrayerNames) : AllPrayerNames[i] = name

\* C23: the list ParseTimings returns has the selected events in canonical order
\* (the order of AllPrayerNames), whatever the order of the selected names
C23_ParsedInCanonicalOrder ==
    (ParsedTimings /\ call.res.ok) =>
        \A i, j \in 1..Len(call.res.prayers) :
            i < j => CanonicalIndex(call.res.prayers[i].Name)
                        <= CanonicalIndex(call.res.prayers[j].Name)

\* C24: in the list ParseTimings returns for a timetable of well-formed HH:MM
\* values the Time values never decrease along the list
C24_ParsedTimesNonDecreasing ==
    (ParsedTimings /\ call.res.ok
        /\ \A n \in DOMAIN call.timings : TwoIntegers(call.timings[n])) =>
        \A i \in 1..(Len(call.res.prayers) - 1) :
            ~After(call.res.prayers[i].Time, call.res.prayers[i + 1].Time)

\* C29: when Config.Set accepts a value for a key, a following Config.Get of
\* the key returns the same value string, latitude "0" and longitude "0" included
C29_SetThenGetRoundTrip ==
    (call.fn = "Set" /\ call.done /\ call.err = "") =>
        (call.got.err = "" /\ call.got.s = call.value)

----------------------------------------------------------------------------
(* calls of the timings cache on a shared cache directory                  *)

MaxFiles == 1

Responses ==
    {ResponseOf(SampleTimings(0), MetaOf(LondonLat, LondonLon, "UTC", 2, 0), "d0"),
     ResponseOf(SampleTimings(1), MetaOf(0, 0, "Riyadh", 3, 1), "d1")}

ParamFields == {"date", "lat", "lon", "city", "country", "method", "school"}

\* the arguments the calls are made with: a base tuple, and every tuple that
\* differs from it in one parameter
BaseParams ==
    [date |-> [ut |-> 600, loc |-> "UTC"], lat |-> LondonLat, lon |-> LondonLon,
     city |-> "", country |-> "", method |-> 2, school |-> 0]

ParamChoices ==
    [date : {[ut |-> 600, loc |-> "UTC"], [ut |-> 900, loc |-> "UTC"],
             [ut |-> 600 + MinutesPerDay, loc |-> "UTC"], [ut |-> 1300, loc |-> "Riyadh"]},
     lat : {LondonLat, LondonLat + 1, LondonLat + 5},
     lon : {0, LondonLon},
     city : {"", "London"},
     country : {"", "UK"},
     method : {2, 3},
     school : {-1, 0}]

DiffFields(p, q) == {f \in ParamFields : p[f] # q[f]}

CacheParams ==
    {p \in ParamChoices : Cardinality(DiffFields(p, BaseParams)) <= 1}

LoadTimingsP(fs, p) ==
    LoadTimings(fs, p.date, p.lat, p.lon, p.city, p.country, p.method, p.school)

PathOf(p) ==
    cacheKey(FormatDate(p.date), p.lat, p.lon, p.city, p.country, p.method, p.school)

CallSaveTimings(p, resp, outcome) ==
    /\ files' = SaveTimings(files, p.date, p.lat, p.lon, p.city, p.country,
                            p.method, p.school, resp, outcome)
    /\ Cardinality(DOMAIN files') <= MaxFiles
    /\ call' = [fn |-> "SaveTimings", p |-> p, resp |-> resp,
                err |-> SaveTimingsErr(outcome)]
    /\ UNCHANGED <<clock, geoFile, pc, inv, trace, out, err>>

\* LoadTimings reads the file and nothing else
CallLoadTimingsRemovingUnusable(p) ==
    /\ call' = [fn |-> "LoadTimings", p |-> p, res |-> LoadTimingsP(files, p)]
    /\ files' = IF LoadTimingsP(files, p) = Nil
                THEN [q \in DOMAIN files \ {PathOf(p)} |-> files[q]]
                ELSE files
    /\ UNCHANGED <<clock, geoFile, pc, inv, trace, out, err>>

CallLoadTimings(p) ==
    /\ call' = [fn |-> "LoadTimings", p |-> p, res |-> LoadTimingsP(files, p)]
    /\ UNCHANGED sysvars

\* what another program, an older version or a torn write may leave in a file
ForeignContents ==
    {Garbage, JsonObject(<<>>),
     MarshalPrayerEntry(SavedEntry(<<7>>, 2, 0,
         ResponseOf(SampleTimings(2), MetaOf(1, 1, "UTC", 2, 0), "d7")))}

\* the environment rewrites an existing cache file
Tamper(path, content) ==
    /\ path \in DOMAIN files
    /\ files[path] # content
    /\ files' = [files EXCEPT ![path] = content]
    /\ call' = [fn |-> "Tamper", path |-> path]
    /\ UNCHANGED <<clock, geoFile, pc, inv, trace, out, err>>

\* the environment removes a cache file
RemoveFile(path) ==
    /\ path \in DOMAIN files
    /\ files' = [q \in DOMAIN files \ {path} |-> files[q]]
    /\ call' = [fn |-> "RemoveFile", path |-> path]
    /\ UNCHANGED <<clock, geoFile, pc, inv, trace, out, err>>

InitCache == SysInit /\ call = NoCall

NextCache ==
    \/ \E p \in CacheParams, resp \in Responses, outcome \in WriteOutcomes :
           CallSaveTimings(p, resp, outcome)
    \/ \E p \in CacheParams : CallLoadTimings(p)
    \/ \E path \in DOMAIN files, content \in ForeignContents : Tamper(path, content)
    \/ \E path \in DOMAIN files : RemoveFile(path)

SpecCache == InitCache /\ [][NextCache]_vars

\* a directory that holds nothing but the file the last SaveTimings wrote
SavedAlone ==
    /\ call.fn = "SaveTimings" /\ call.err = ""
    /\ Cardinality(DOMAIN files) = 1

\* the calendar day a date parameter falls on
CalendarDay(date) == FloorDiv(date.ut + ZoneOffsets[date.loc], MinutesPerDay)

\* a coordinate as printed with six decimals: sign and rounded millionths
SixDecimals(x) == <<x < 0, ((IF x < 0 THEN -x ELSE x) + 5) \div 10>>

\* q differs from p in exactly one parameter (for the date: another calendar day)
OneParameterChanged(p, q) ==
    /\ Cardinality(DiffFields(p, q)) = 1
    /\ DiffFields(p, q) = {"date"} => CalendarDay(p.date) # CalendarDay(q.date)

\* q names another calendar day, other six-decimal coordinates, or another city,
\* country, method or school than p
KeyParameterChanged(p, q) ==
    \/ CalendarDay(p.date) # CalendarDay(q.date)
    \/ SixDecimals(p.lat) # SixDecimals(q.lat)
    \/ SixDecimals(p.lon) # SixDecimals(q.lon)
    \/ p.city # q.city \/ p.country # q.country
    \/ p.method # q.method \/ p.school # q.school

StoredFor(p) == UnmarshalPrayerEntry(files[PathOf(p)]).entry

Parses(p) == PathOf(p) \in DOMAIN files /\ files[PathOf(p)].kind = "json"

\* C8: LoadTimings returns a miss whenever the stored entry's Date differs from
\* the requested date, even when the file exists and parses; an entry returned
\* always carries the requested date.
C8_StaleDateIsMiss ==
    call.fn = "LoadTimings" =>
        /\ (Parses(call.p) /\ StoredFor(call.p).Date # <<CalendarDay(call.p.date)>>)
               => call.res = Nil
        /\ call.res # Nil => call.res.Date = <<CalendarDay(call.p.date)>>

\* C8's case: the file exists and parses, holds another date, and the load missed.
C8_Witness ==
    /\ call.fn = "LoadTimings"
    /\ Parses(call.p)
    /\ StoredFor(call.p).Date = <<7>>
    /\ call.res = Nil

----------------------------------------------------------------------------
(* calls of the geolocation cache                                          *)

MaxDays == 2

GeoClockValues == {d * MinutesPerDay + m : d \in 0..MaxDays, m \in {0, 1, 720}}

GeoLocations ==
    {[Latitude |-> LondonLat, Longitude |-> LondonLon, City |-> "London",
      Country |-> "United Kingdom", Timezone |-> "UTC"],
     [Latitude |-> RiyadhLat, Longitude |-> RiyadhLon, City |-> "Riyadh",
      Country |-> "Saudi Arabia", Timezone |-> "Riyadh"]}

CallSaveGeo(loc, outcome) ==
    /\ geoFile' = SaveGeo(geoFile, loc, clock, outcome)
    /\ call' = [fn |-> "SaveGeo", loc |-> loc,
                err |-> IF outcome = "ok" THEN "" ELSE "failed to write geo cache"]
    /\ UNCHANGED <<clock, files, pc, inv, trace, out, err>>

CallLoadGeo ==
    /\ call' = [fn |-> "LoadGeo", res |-> LoadGeo(geoFile, clock)]
    /\ UNCHANGED sysvars

\* time passes
TickGeo(t) ==
    /\ t > clock
    /\ clock' = t
    /\ call' = [fn |-> "Tick"]
    /\ UNCHANGED <<files, geoFile, pc, inv, trace, out, err>>

\* the environment rewrites or removes geolocation.json
TamperGeo(content) ==
    /\ geoFile # content
    /\ geoFile' = content
    /\ call' = [fn |-> "TamperGeo"]
    /\ UNCHANGED <<clock, files, pc, inv, trace, out, err>>

InitGeo == SysInit /\ call = NoCall

NextGeo ==
    \/ \E loc \in GeoLocations, outcome \in WriteOutcomes : CallSaveGeo(loc, outcome)
    \/ CallLoadGeo
    \/ \E t \in GeoClockValues : TickGeo(t)
    \/ \E content \in {Garbage, JsonObject(<<>>), NoFile} : TamperGeo(content)

SpecGeo == InitGeo /\ [][NextGeo]_vars

\* geolocation.json parses, and the entry it holds
GeoParses == geoFile.kind = "json"

GeoStored == UnmarshalGeoEntry(geoFile).entry

\* C9 as claimed: LoadGeo returns the cached location only while
\* now - CachedAt < 24h; an entry whose age has reached 24h is a miss.
C9_HitOnlyBelowTTL ==
    (call.fn = "LoadGeo" /\ GeoParses) =>
        (call.res # Nil <=> clock - GeoStored.CachedAt < 24 * MinutesPerHour)

\* C9 amended: LoadGeo returns the cached location while now - CachedAt <= 24h,
\* at exactly 24h still; an entry older than 24h is a miss, as are an absent
\* and an unparseable file.
C9_HitUpToTTL ==
    call.fn = "LoadGeo" =>
        /\ GeoParses =>
             /\ call.res # Nil <=> clock - GeoStored.CachedAt <= 24 * MinutesPerHour
             /\ call.res # Nil => call.res = GeoStored.Location
        /\ ~GeoParses => call.res = Nil

\* C9's case: loads at exactly 24h (a hit) and the model reaches older entries.
C9_Witness ==
    /\ call.fn = "LoadGeo"
    /\ GeoParses
    /\ clock - GeoStored.CachedAt = 24 * MinutesPerHour
    /\ call.res \in GeoLocations

\* an entry older than 24h was loaded and missed
C9_WitnessExpired ==
    /\ call.fn = "LoadGeo"
    /\ GeoParses
    /\ GeoStored.Location \in GeoLocations
    /\ clock - GeoStored.CachedAt > 24 * MinutesPerHour
    /\ call.res = Nil

----------------------------------------------------------------------------
(* invocations of the next command, one after another, on one cache        *)
(* directory; between them time passes                                     *)

MaxRunDays == 2

\* time passes between two invocations
Tick(t) ==
    /\ pc = "idle"
    /\ t > clock
    /\ clock' = t
    /\ UNCHANGED <<files, geoFile, pc, inv, trace, out, err, call>>

\* the steps of a running command
Run ==
    \/ \E api \in ApiOutcomes, wr \in WriteOutcomes : Today(api, wr)
    \/ \E api \in ApiOutcomes, wr \in WriteOutcomes : Rollover(api, wr)
    \/ Found
    \/ Exit

(* the location is given: by coordinates, or by a city                     *)

\* times of day the command is run at: Dhuhr exactly, Isha exactly, after Isha
RunTimes == {12 * MinutesPerHour + 13, 19 * MinutesPerHour + 10, 22 * MinutesPerHour}

ClockValues == {d * MinutesPerDay + m : d \in 0..(MaxRunDays - 1), m \in RunTimes}

\* the configurations the command is run with; the last one is a machine whose
\* local zone is ahead of the timezone of the place asked for
RunConfigs ==
    {DefaultConfig,
     [DefaultConfig EXCEPT !.CacheOK = FALSE],
     [DefaultConfig EXCEPT !.Prayers = <<"Isha", "Fajr">>],
     [DefaultConfig EXCEPT !.Prayers = <<"Fajr", "Tahajjud">>],
     [DefaultConfig EXCEPT !.Latitude = 0, !.Longitude = 0, !.City = "London"],
     [DefaultConfig EXCEPT !.Local = "Riyadh"]}

StartNext ==
    \E cfg \in RunConfigs, detected \in DetectOutcomes, wr \in WriteOutcomes :
        Start(cfg, detected, wr)

Init == EmptyDir /\ clock \in ClockValues /\ call = NoCall

Next ==
    \/ StartNext
    \/ Run
    \/ \E t \in ClockValues : Tick(t)

Spec == Init /\ [][Next]_vars

(* the location is detected from the IP address, or taken from geolocation.json *)

\* UTC times of day the command is run at: 12:13 and 22:00 in Riyadh
DetectTimes == {9 * MinutesPerHour + 13, 19 * MinutesPerHour}

DetectClock == {d * MinutesPerDay + m : d \in 0..(MaxRunDays - 1), m \in DetectTimes}

DetectConfigs ==
    {[DefaultConfig EXCEPT !.Latitude = 0, !.Longitude = 0],
     [DefaultConfig EXCEPT !.Latitude = 0, !.Longitude = 0, !.CacheOK = FALSE]}

StartDetect ==
    \E cfg \in DetectConfigs, detected \in DetectOutcomes, wr \in WriteOutcomes :
        Start(cfg, detected, wr)

InitDetect == EmptyDir /\ clock \in DetectClock /\ call = NoCall

NextDetect ==
    \/ StartDetect
    \/ Run
    \/ \E t \in DetectClock : Tick(t)

SpecDetect == InitDetect /\ [][NextDetect]_vars

----------------------------------------------------------------------------
(* calls of resolveLocation, fetchTimings and fetchCalendarDays on a cache *)
(* directory, with every way the write to the cache may end; the clock     *)
(* stands at 22:00 in Riyadh on 28 February                                *)

MaxListDays == 3

WritesClock == MinutesPerDay + 19 * MinutesPerHour

\* the locations the calls are made for: the detected one, and a city
ResolvedLocations ==
    {[Mode |-> "coords", Lat |-> l.Latitude, Lon |-> l.Longitude, City |-> "",
      Country |-> "", Timezone |-> l.Timezone] : l \in DetectOutcomes \ {Nil}}
    \cup {[Mode |-> "city", Lat |-> 0, Lon |-> 0, City |-> "London", Country |-> "UK",
           Timezone |-> ""]}

\* geolocation.json before a call: absent, unparseable, saved an hour ago, saved
\* two days ago
GeoFilesBefore ==
    {NoFile, Garbage}
    \cup {SaveGeo(NoFile, l, WritesClock - age, "ok") :
            l \in DetectOutcomes \ {Nil}, age \in {MinutesPerHour, 2 * MinutesPerDay}}

\* the file of the call's day: absent, unparseable, saved by an earlier call, or
\* holding the entry of the day before (DateKey differs from the requested date)
TimingsDirsBefore(k) ==
    {<<>>,
     [p \in {cacheKey(FormatDate(k.date), k.loc.Lat, k.loc.Lon, k.loc.City,
                      k.loc.Country, k.method, k.school)} |->
        MarshalPrayerEntry(SavedEntry(FormatDate(AddDays(k.date, -1)), k.method, k.school,
            FetchFromApi(AddDays(k.date, -1), k.loc, k.method, k.school, "ok").resp))],
     SaveTimings(<<>>, k.date, k.loc.Lat, k.loc.Lon, k.loc.City, k.loc.Country,
                 k.method, k.school,
                 FetchFromApi(k.date, k.loc, k.method, k.school, "ok").resp, "partial"),
     SaveTimings(<<>>, k.date, k.loc.Lat, k.loc.Lon, k.loc.City, k.loc.Country,
                 k.method, k.school,
                 FetchFromApi(k.date, k.loc, k.method, k.school, "ok").resp, "ok")}

\* the file of a month: absent, unparseable, or saved by an earlier call from a
\* response with every day ("json") or from one that stops short ("short")
MonthFileBefore(k, ym, kind) ==
    IF kind = "absent" THEN <<>>
    ELSE SaveCalendar(<<>>, ym, k.loc.Lat, k.loc.Lon, k.loc.City, k.loc.Country,
                      k.method, k.school,
                      FetchCalendarFromApi(ym, k.loc, k.method, k.school,
                                           IF kind = "short" THEN "short" ELSE "ok").resp,
                      IF kind \in {"json", "short"} THEN "ok" ELSE "partial")

\* the files of February and March
CalendarDirsBefore(k) ==
    {MonthFileBefore(k, <<2026, 2>>, a) @@ MonthFileBefore(k, <<2026, 3>>, b) :
        a \in {"absent", "garbage", "json", "short"}, b \in {"absent", "json"}}

CallResolveLocation ==
    /\ call.fn = "resolveLocation" /\ ~call.done
    /\ LET r == resolveLocation(call.lat, call.lon, call.city, call.country, call.c,
                                geoFile, clock, call.detected, call.wr)
       IN  /\ geoFile' = r.gf
           /\ call' = [call EXCEPT !.done = TRUE] @@ [res |-> r, before |-> geoFile]
    /\ UNCHANGED <<clock, files, pc, inv, trace, out, err>>

CallFetchTimings ==
    /\ call.fn = "fetchTimings" /\ ~call.done
    /\ LET r == fetchTimings(files, call.date, call.loc, call.method, call.school,
                             call.c, call.api, call.wr)
       IN  /\ files' = r.fs
           /\ call' = [call EXCEPT !.done = TRUE] @@ [res |-> r, before |-> files]
    /\ UNCHANGED <<clock, geoFile, pc, inv, trace, out, err>>

\* the LoadTimings of the next fetchTimings with the same parameters
CallLoadTimingsAgain ==
    /\ call.fn = "fetchTimings" /\ call.done /\ call.c
    /\ "again" \notin DOMAIN call
    /\ call' = call @@ [again |-> LoadTimings(files, call.date, call.loc.Lat, call.loc.Lon,
                                              call.loc.City, call.loc.Country,
                                              call.method, call.school)]
    /\ UNCHANGED sysvars

CallFetchCalendarDays ==
    /\ call.fn = "fetchCalendarDays" /\ ~call.done
    /\ LET r == fetchCalendarDays(files, call.start, call.days, call.loc, call.method,
                                  call.school, call.c, call.order, call.apis, call.wrs)
       IN  /\ files' = r.fs
           /\ call' = [call EXCEPT !.done = TRUE] @@ [res |-> r, before |-> files]
    /\ UNCHANGED <<clock, geoFile, pc, inv, trace, out, err>>

\* effectiveConfig(cmd): the configuration merged from the loaded config file
\* (Nil when there is none) and the flags; changed is the set of flags given on
\* the command line, flag their values; Method and School are pointers, <<>> for
\* nil
effectiveConfig(loadedConfig, changed, flag) ==
    LET cfg == IF loadedConfig = Nil
               THEN [City |-> "", Country |-> "", Latitude |-> 0, Longitude |-> 0,
                     Method |-> <<>>, School |-> <<>>, TimeFormat |-> "",
                     Prayers |-> "", CacheDir |-> ""]
               ELSE loadedConfig
    IN  [City |-> IF "city" \in changed THEN flag.city ELSE cfg.City,
         Country |-> IF "country" \in changed THEN flag.country ELSE cfg.Country,
         Latitude |-> IF "latitude" \in changed THEN flag.latitude ELSE cfg.Latitude,
         Longitude |-> IF "longitude" \in changed THEN flag.longitude
                       ELSE cfg.Longitude,
         Method |-> IF "method" \in changed THEN <<flag.method>>
                    ELSE IF cfg.Method = <<>> THEN <<-1>> ELSE cfg.Method,
         School |-> IF "school" \in changed THEN <<flag.school>>
                    ELSE IF cfg.School = <<>> THEN <<-1>> ELSE cfg.School,
         CacheDir |-> IF "cache-dir" \in changed THEN flag.cacheDir ELSE cfg.CacheDir,
         TimeFormat |-> IF "time-format" \in changed THEN flag.timeFormat
                        ELSE IF cfg.TimeFormat = "" THEN "24h" ELSE cfg.TimeFormat,
         Prayers |-> IF "prayers" \in changed THEN flag.prayers ELSE cfg.Prayers]

\* the start of a command: the merged configuration, then resolveLocation on its
\* location fields
CallEffectiveLocation ==
    /\ call.fn = "effectiveConfig" /\ ~call.done
    /\ LET cfg == effectiveConfig(call.loaded, call.changed, call.flag)
           r == resolveLocation(cfg.Latitude, cfg.Longitude, cfg.City, cfg.Country,
                                call.c, geoFile, clock, call.detected, call.wr)
       IN  /\ geoFile' = r.gf
           /\ call' = [call EXCEPT !.done = TRUE] @@
                      [cfg |-> cfg, res |-> r, before |-> geoFile]
    /\ UNCHANGED <<clock, files, pc, inv, trace, out, err>>

\* SaveCalendar on an empty cache directory: February's response, whole or cut
\* short, saved under a month and parameters
CallSaveCalendar ==
    /\ call.fn = "SaveCalendar" /\ ~call.done
    /\ files' = SaveCalendar(files, call.ym, call.p.lat, call.p.lon, call.p.city,
                             call.p.country, call.p.method, call.p.school,
                             call.resp, call.wr)
    /\ call' = [call EXCEPT !.done = TRUE] @@ [err |-> SaveTimingsErr(call.wr)]
    /\ UNCHANGED <<clock, geoFile, pc, inv, trace, out, err>>

\* LoadCalendar for a month and parameters, after the SaveCalendar
CallLoadCalendar(ym, q) ==
    /\ call.fn = "SaveCalendar" /\ call.done
    /\ call' = [fn |-> "LoadCalendar", done |-> TRUE, saved |-> call, ym |-> ym,
                p |-> q,
                res |-> LoadCalendar(files, ym, q.lat, q.lon, q.city, q.country,
                                    q.method, q.school)]
    /\ UNCHANGED sysvars

InitWrites ==
    /\ clock = WritesClock
    /\ pc = "idle" /\ inv = NoInvocation /\ trace = <<>> /\ out = <<>> /\ err = ""
    /\ \/ /\ call \in [fn : {"resolveLocation"}, done : {FALSE},
                       lat : {0, LondonLat}, lon : {0, LondonLon},
                       city : {"", "London"}, country : {"", "UK"}, c : BOOLEAN,
                       detected : DetectOutcomes, wr : WriteOutcomes]
          /\ files = <<>>
          /\ geoFile \in GeoFilesBefore
       \/ /\ call \in [fn : {"fetchTimings"}, done : {FALSE},
                       date : {[ut |-> WritesClock, loc |-> "UTC"]},
                       loc : ResolvedLocations, method : {2}, school : {0},
                       c : BOOLEAN, api : ApiOutcomes, wr : WriteOutcomes]
          /\ files \in TimingsDirsBefore(call)
          /\ geoFile = NoFile
       \/ /\ call \in [fn : {"fetchCalendarDays"}, done : {FALSE},
                       start : {[ut |-> WritesClock, loc |-> "UTC"]},
                       days : 1..MaxListDays, loc : ResolvedLocations,
                       method : {2}, school : {0}, c : BOOLEAN,
                       order : UNION {RangeOrders(NeededMonths(
                                          [ut |-> WritesClock, loc |-> "UTC"], n)) :
                                      n \in 1..MaxListDays},
                       apis : [1..2 -> {"fail", "ok", "short"}],
                       wrs : [1..2 -> WriteOutcomes]]
          /\ call.order \in RangeOrders(NeededMonths(call.start, call.days))
          /\ files \in CalendarDirsBefore(call)
          /\ geoFile = NoFile
       \/ /\ call \in [fn : {"effectiveConfig"}, done : {FALSE},
                       loaded : {Nil} \cup
                           [City : {"", "Riyadh"}, Country : {"", "Saudi Arabia"},
                            Latitude : {0, RiyadhLat}, Longitude : {0, RiyadhLon},
                            Method : {<<>>, <<3>>}, School : {<<>>}, TimeFormat : {""},
                            Prayers : {""}, CacheDir : {""}],
                       changed : {{}, {"method"}, {"latitude", "longitude"},
                                  {"city", "country"}, {"city"},
                                  {"city", "country", "latitude", "longitude"}},
                       flag : {[city |-> "London", country |-> "UK",
                                latitude |-> LondonLat, longitude |-> LondonLon,
                                method |-> 2, school |-> 0, cacheDir |-> "",
                                timeFormat |-> "12h", prayers |-> ""]},
                       c : BOOLEAN, detected : DetectOutcomes, wr : {"ok"}]
          /\ files = <<>>
          /\ geoFile \in GeoFilesBefore
       \/ /\ call \in [fn : {"SaveCalendar"}, done : {FALSE},
                       ym : {<<2026, 2>>, <<2026, 3>>, <<2027, 2>>},
                       p : {q \in CacheParams : q.date = BaseParams.date},
                       resp : {FetchCalendarByCoordinates(<<2026, 2>>, LondonLat,
                                   LondonLon, 2, 0, kind).resp : kind \in {"ok", "short"}},
                       wr : WriteOutcomes]
          /\ files = <<>>
          /\ geoFile = NoFile

NextWrites ==
    \/ CallResolveLocation
    \/ CallFetchTimings
    \/ CallLoadTimingsAgain
    \/ CallFetchCalendarDays
    \/ CallSaveCalendar
    \/ CallEffectiveLocation
    \/ \E ym \in {<<2026, 2>>, <<2026, 3>>, <<2027, 2>>},
          q \in {r \in CacheParams : r.date = BaseParams.date} : CallLoadCalendar(ym, q)

SpecWrites == InitWrites /\ [][NextWrites]_vars

\* r and ref end alike: both fail with the same error, or both succeed with the
\* same location, timetable or days
SameOutcome(r, ref, payload) ==
    /\ r.ok = ref.ok
    /\ r.ok => r[payload] = ref[payload]
    /\ ~r.ok => r.err = ref.err

Resolved == call.fn = "resolveLocation" /\ call.done

\* the events of kind ev among the events of r
EventsOf(r, ev) == {i \in 1..Len(r.events) : r.events[i].ev = ev}

\* C13: with a latitude or longitude other than zero, resolveLocation returns
\* mode coordinates with exactly that latitude and longitude, whatever city and
\* country are given, without a lookup in the geolocation cache and without IP
\* detection
C13_ExplicitCoordinatesWin ==
    (Resolved /\ (call.lat # 0 \/ call.lon # 0)) =>
        /\ call.res.ok
        /\ call.res.loc.Mode = "coords"
        /\ call.res.loc.Lat = call.lat /\ call.res.loc.Lon = call.lon
        /\ call.res.loc.City = "" /\ call.res.loc.Country = ""
        /\ EventsOf(call.res, "LoadGeo") = {} /\ EventsOf(call.res, "Detect") = {}

\* only the longitude is set, a city and a country are given too, and a fresh
\* geolocation of another place is in the cache
C13_Witness ==
    /\ Resolved
    /\ call.lat = 0 /\ call.lon # 0
    /\ call.city # "" /\ call.country # ""
    /\ call.c /\ LoadGeo(call.before, clock) # Nil
    /\ call.res.loc.Lon = call.lon

\* C14: with latitude and longitude zero and a city given, resolveLocation fails
\* with the missing-country error when the country is empty, and otherwise
\* returns mode named place with exactly that city and country
C14_CityNeedsCountry ==
    (Resolved /\ call.lat = 0 /\ call.lon = 0 /\ call.city # "") =>
        IF call.country = ""
        THEN ~call.res.ok /\ call.res.err = "--country is required when using --city"
        ELSE /\ call.res.ok
             /\ call.res.loc.Mode = "city"
             /\ call.res.loc.City = call.city /\ call.res.loc.Country = call.country
             /\ call.res.loc.Lat = 0 /\ call.res.loc.Lon = 0

\* a city without a country fails although a cached geolocation and IP detection
\* were both there to fall back on
C14_Witness ==
    /\ Resolved
    /\ call.lat = 0 /\ call.lon = 0 /\ call.city # "" /\ call.country = ""
    /\ call.c /\ LoadGeo(call.before, clock) # Nil /\ call.detected # Nil
    /\ ~call.res.ok

\* C16: with no coordinates and no city, and the geolocation cache disabled or
\* missing, resolveLocation calls IP detection exactly once; a detected location
\* is saved to the geolocation cache (when there is one) and returned as mode
\* coordinates whether or not the save succeeds; a failed detection returns the
\* location-unavailable error and leaves the cache as it was
C16_DetectOnceSaveBestEffort ==
    (/\ Resolved
     /\ call.lat = 0 /\ call.lon = 0 /\ call.city = ""
     /\ (~call.c \/ LoadGeo(call.before, clock) = Nil)) =>
        /\ Cardinality(EventsOf(call.res, "Detect")) = 1
        /\ IF call.detected # Nil
           THEN /\ call.res.ok
                /\ call.res.loc.Mode = "coords"
                /\ call.res.loc.Lat = call.detected.Latitude
                /\ call.res.loc.Lon = call.detected.Longitude
                /\ call.res.loc.City = "" /\ call.res.loc.Country = ""
                /\ Cardinality(EventsOf(call.res, "SaveGeo")) = IF call.c THEN 1 ELSE 0
                /\ geoFile = IF call.c
                             THEN SaveGeo(call.before, call.detected, clock, call.wr)
                             ELSE call.before
                /\ (call.c /\ call.wr = "ok") => LoadGeo(geoFile, clock) = call.detected
           ELSE /\ ~call.res.ok
                /\ call.res.err = "no location specified and auto-detection failed"
                /\ EventsOf(call.res, "SaveGeo") = {}
                /\ geoFile = call.before

\* an expired geolocation, a detection that succeeds and a save that fails: the
\* detected location is returned and the expired file stays
C16_Witness ==
    /\ Resolved
    /\ call.lat = 0 /\ call.lon = 0 /\ call.city = ""
    /\ call.c /\ call.before.kind = "json" /\ LoadGeo(call.before, clock) = Nil
    /\ call.detected # Nil /\ call.wr = "fail"
    /\ call.res.ok /\ call.res.loc.Lat = call.detected.Latitude
    /\ geoFile = call.before

\* C17: resolveLocation with explicit coordinates or with a city makes no network
\* call and neither reads nor writes the geolocation cache; the geolocation cache
\* changes only when no location was given and IP detection succeeded
C17_OnlyDetectionTouchesGeoCache ==
    Resolved =>
        /\ (call.lat # 0 \/ call.lon # 0 \/ call.city # "") =>
               call.res.events = <<>> /\ geoFile = call.before
        /\ geoFile # call.before =>
               /\ call.lat = 0 /\ call.lon = 0 /\ call.city = ""
               /\ call.detected # Nil
               /\ \E i \in EventsOf(call.res, "Detect") :
                      /\ call.res.events[i].ok
                      /\ \E j \in EventsOf(call.res, "SaveGeo") : i < j

\* explicit coordinates next to an unparseable geolocation.json, which stays as
\* it is although the cache is enabled and detection would succeed
C17_Witness ==
    /\ Resolved
    /\ call.lat # 0 /\ call.city = ""
    /\ call.c /\ call.before = Garbage /\ call.detected # Nil /\ call.wr = "ok"
    /\ call.res.ok
    /\ geoFile = Garbage

----------------------------------------------------------------------------
(* properties of the next command                                          *)

AllAtOrBefore(prayers, now) ==
    \A i \in 1..Len(prayers) : prayers[i].Time.ut <= now.ut

\* the step looked up the timetable of the calendar day dateStr
LooksUp(dateStr) ==
    \E i \in (Len(trace) + 1)..Len(trace') :
        /\ trace'[i].ev \in {"LoadTimings", "Fetch"}
        /\ trace'[i].date = dateStr

\* C2: when every selected event of today is at or before now, also when now is
\* exactly the instant of today's last selected event, the resolver has no next
\* event of today and moves to Rollover, where it looks up tomorrow's timetable
C2_AllPassedMovesToRollover ==
    [][/\ (pc = "today" /\ pc' \in {"found", "rollover"}
             /\ AllAtOrBefore(inv'.prayers, inv'.now))
          => (pc' = "rollover" /\ inv'.next = Nil)
       /\ (pc = "rollover" /\ pc' # "rollover")
          => LooksUp(<<DayOf(inv.now) + 1>>)]_vars

\* a run at the very minute of today's last selected event has looked up tomorrow
C2_Witness ==
    /\ pc \in {"found", "done"}
    /\ inv.cmd = "next"
    /\ inv.tomorrow # Nil
    /\ Len(inv.prayers) > 0
    /\ inv.prayers[Len(inv.prayers)].Time.ut = inv.now.ut
    /\ \E i \in 1..Len(trace) : /\ trace[i].ev \in {"LoadTimings", "Fetch"}
                                /\ trace[i].date = <<DayOf(inv.now) + 1>>

\* C3: after a successful lookup of tomorrow with at least one parsed event the
\* resolver is in Found with the first entry of tomorrow's list, and no entry of
\* tomorrow's list is earlier than it
C3_RolloverFindsTomorrowsEarliest ==
    (pc = "found" /\ inv.tomorrow # Nil)
    => /\ inv.next = inv.tomorrowPrayers[1]
       /\ \A i \in 1..Len(inv.tomorrowPrayers) :
              inv.next.Time.ut <= inv.tomorrowPrayers[i].Time.ut

LastEvent == trace[Len(trace)]

\* C4: when the fetch of tomorrow's timetable fails and today's list is not empty,
\* the command prints the name of the last entry of today's list and " --:--",
\* nothing else, and returns no error
C4_DegradedFallbackPrintsLastOfToday ==
    (/\ pc = "done"
     /\ inv.cmd = "next"
     /\ inv.tomorrow # Nil
     /\ Len(trace) > 0
     /\ LastEvent.ev = "Fetch"
     /\ ~LastEvent.ok
     /\ Len(inv.prayers) > 0)
    => (out = <<inv.prayers[Len(inv.prayers)].Name, " --:--">> /\ err = "")

\* after Isha with the default selection, tomorrow's fetch failed
C4_Witness ==
    /\ pc = "done"
    /\ inv.cmd = "next"
    /\ inv.tomorrow # Nil
    /\ Len(trace) > 0
    /\ LastEvent.ev = "Fetch"
    /\ ~LastEvent.ok
    /\ inv.selected = DefaultPrayerNames
    /\ out = <<"Isha", " --:--">>
    /\ err = ""

\* the cache file of the running invocation for the calendar day dateStr
KeyOf(dateStr) ==
    cacheKey(dateStr, inv.loc.Lat, inv.loc.Lon, inv.loc.City, inv.loc.Country,
             inv.cfg.Method, inv.cfg.School)

\* C6: the provider is asked only right after LoadTimings missed for that day, or
\* with the cache disabled; a timetable that was fetched and saved is in the cache
\* directory and stays there, and a lookup that finds it is a hit that is not
\* followed by a provider call
C6_ProviderOnlyOnMiss ==
    /\ [](\A i \in 1..Len(trace) :
            /\ trace[i].ev = "Fetch"
               => \/ ~inv.cfg.CacheOK
                  \/ /\ i > 1
                     /\ trace[i - 1].ev = "LoadTimings"
                     /\ trace[i - 1].date = trace[i].date
                     /\ ~trace[i - 1].hit
            /\ (trace[i].ev = "SaveTimings" /\ trace[i].outcome = "ok")
               => /\ KeyOf(trace[i].date) \in DOMAIN files
                  /\ files[KeyOf(trace[i].date)].kind = "json"
            /\ (trace[i].ev = "LoadTimings" /\ trace[i].file = "json")
               => /\ trace[i].hit
                  /\ i < Len(trace) => trace[i + 1].ev \notin {"Fetch", "SaveTimings"})
    /\ [][\A path \in DOMAIN files :
            files[path].kind = "json"
            => (path \in DOMAIN files' /\ files'[path] = files[path])]_vars

\* a resolution that made one cache lookup, found the saved day and asked nobody
C6_Witness ==
    /\ pc = "done"
    /\ inv.cmd = "next"
    /\ inv.state = "Found"
    /\ inv.cfg.CacheOK
    /\ Len(trace) = 1
    /\ trace[1].ev = "LoadTimings"
    /\ trace[1].file = "json"
    /\ trace[1].hit

\* C10: a timetable file or geolocation.json that is absent or does not parse is a
\* miss, right after which the provider is asked (the location is detected); the
\* command fails only when the detection or the provider fails or a time does not
\* parse, never because of the cache
C10_UnusableCacheFileIsMiss ==
    /\ \A i \in 1..Len(trace) :
          /\ (trace[i].ev = "LoadGeo" /\ trace[i].file \in {"absent", "garbage"})
             => /\ ~trace[i].hit
                /\ i < Len(trace)
                /\ trace[i + 1].ev = "Detect"
          /\ (trace[i].ev = "LoadTimings" /\ trace[i].file \in {"absent", "garbage"})
             => /\ ~trace[i].hit
                /\ i < Len(trace)
                /\ trace[i + 1].ev = "Fetch"
                /\ trace[i + 1].date = trace[i].date
    /\ (pc = "done" /\ err # "")
       => \/ err = "failed to parse time"
          \/ /\ Len(trace) > 0
             /\ LastEvent.ev \in {"Detect", "Fetch"}
             /\ ~LastEvent.ok

\* a resolution that met an unparseable geolocation.json and an unparseable
\* timetable file and still found the next prayer
C10_Witness ==
    /\ pc = "done"
    /\ inv.cmd = "next"
    /\ inv.state = "Found"
    /\ err = ""
    /\ \E i \in 1..Len(trace) : trace[i].ev = "LoadGeo" /\ trace[i].file = "garbage"
    /\ \E i \in 1..Len(trace) : trace[i].ev = "LoadTimings" /\ trace[i].file = "garbage"

\* C15: with no coordinates and no city given and a geolocation.json that parses
\* and is not older than the TTL, resolveLocation returns mode coordinates with
\* the cached latitude, longitude and timezone without calling IP detection, and
\* the resolver parses today's and tomorrow's times in that timezone, whatever
\* timezone the provider reports
C15_CachedLocationAndZoneHint ==
    (/\ pc # "idle"
     /\ inv.cfg.CacheOK
     /\ inv.cfg.Latitude = 0 /\ inv.cfg.Longitude = 0 /\ inv.cfg.City = ""
     /\ GeoParses /\ clock - GeoStored.CachedAt <= GeoTTL
     /\ \A i \in 1..Len(trace) : trace[i].ev # "SaveGeo") =>
        /\ \A i \in 1..Len(trace) : trace[i].ev # "Detect"
        /\ inv.loc # Nil
        /\ inv.loc.Mode = "coords"
        /\ inv.loc.Lat = GeoStored.Location.Latitude
        /\ inv.loc.Lon = GeoStored.Location.Longitude
        /\ inv.loc.Timezone = GeoStored.Location.Timezone
        /\ inv.tzLoc # "" =>
             /\ inv.tzLoc = LoadLocation(GeoStored.Location.Timezone).loc
             /\ inv.now.loc = inv.tzLoc
             /\ \A i \in 1..Len(inv.prayers) : inv.prayers[i].Time.loc = inv.tzLoc
             /\ \A i \in 1..Len(inv.tomorrowPrayers) :
                    inv.tomorrowPrayers[i].Time.loc = inv.tzLoc

\* a run on a geolocation cached by an earlier run, with a timetable fetched from
\* a provider that reports another timezone than the cached one
C15_Witness ==
    /\ pc = "done" /\ inv.state = "Found"
    /\ trace[1].ev = "LoadGeo" /\ trace[1].hit
    /\ GeoStored.CachedAt < clock
    /\ \E i \in 1..Len(trace) : trace[i].ev = "Fetch" /\ trace[i].ok
    /\ ProviderZone(inv.loc.Lat, inv.loc.Lon, inv.loc.City) # inv.loc.Timezone
    /\ inv.next.Time.loc = inv.loc.Timezone

\* a completed call of fetchCalendarDays
CalendarCalled == call.fn = "fetchCalendarDays" /\ call.done

\* the events of the call that are about the month ym
MonthEvents(ym, kinds) ==
    {i \in 1..Len(call.res.events) :
        call.res.events[i].ev \in kinds /\ call.res.events[i].ym = ym}

\* the events by which the call obtained the record of the month ym: a cache
\* hit or an answered request
MonthObtained(ym) ==
    {i \in MonthEvents(ym, {"LoadCalendar", "FetchCalendar"}) :
        IF call.res.events[i].ev = "LoadCalendar" THEN call.res.events[i].hit
        ELSE call.res.events[i].ok}

\* C25: a call of fetchCalendarDays(start, N, ...) that succeeds returns N
\* entries dated start, start + 1, ..., start + N - 1 in this order, each with the
\* provider's record of that very day (index day-of-month - 1 of its month), and
\* obtains each month of the range once: at most one cache lookup and at most
\* one request for it, exactly one of them giving the record
C25_CalendarDaysInOrderMonthsOnce ==
    (CalendarCalled /\ call.res.ok) =>
        /\ Len(call.res.result) = call.days
        /\ \A i \in 1..call.days :
            LET d == AddDays(call.start, i - 1) IN
            /\ call.res.result[i].Date = d
            /\ call.res.result[i].DateInfo.Readable = <<DayOf(d)>>
            /\ call.res.result[i].Timings = ProviderTimings(<<DayOf(d)>>, "ok")
        /\ \A ym \in NeededMonths(call.start, call.days) :
            /\ Cardinality(MonthObtained(ym)) = 1
            /\ Cardinality(MonthEvents(ym, {"LoadCalendar"})) <= 1
            /\ Cardinality(MonthEvents(ym, {"FetchCalendar"})) <= 1
        /\ \A i \in 1..Len(call.res.events) :
            call.res.events[i].ym \in NeededMonths(call.start, call.days)

\* three days from 28 February: February from the cache, March from the provider,
\* which is asked once for the two days of March
C25_Witness ==
    /\ CalendarCalled /\ call.res.ok /\ call.days = 3
    /\ \E i \in MonthObtained(<<2026, 2>>) : call.res.events[i].ev = "LoadCalendar"
    /\ \E i \in MonthObtained(<<2026, 3>>) : call.res.events[i].ev = "FetchCalendar"
    /\ DayOfMonth(call.res.result[1].Date) = 28
    /\ DayOfMonth(call.res.result[3].Date) = 2

\* the record the call obtained for the month ym lacks the index of a requested
\* day of that month
RecordLacksDay(ym) ==
    /\ MonthObtained(ym) # {}
    /\ LET i == CHOOSE j \in MonthObtained(ym) : TRUE
           days == IF call.res.events[i].ev = "LoadCalendar"
                   THEN Field(call.before[calendarKey(ym, call.loc.Lat, call.loc.Lon,
                                                      call.loc.City, call.loc.Country,
                                                      call.method, call.school)].obj,
                              "days", <<>>)
                   ELSE FetchCalendarFromApi(ym, call.loc, call.method, call.school,
                            call.apis[CHOOSE n \in 1..Len(call.order) :
                                          call.order[n] = ym]).resp.Data
       IN  \E n \in 0..(call.days - 1) :
            /\ YearMonthOf(AddDays(call.start, n)) = ym
            /\ DayOfMonth(AddDays(call.start, n)) > Len(days)

\* C26: when every month of the range was obtained and the record of one lacks
\* the index of a requested day, fetchCalendarDays returns the out-of-range
\* error and no days at all, and the short record is not taken for a cache miss:
\* a month found in the cache is not requested, and no month is requested twice
C26_ShortMonthIsHardError ==
    (/\ CalendarCalled
     /\ \A ym \in NeededMonths(call.start, call.days) : MonthObtained(ym) # {}
     /\ \E ym \in NeededMonths(call.start, call.days) : RecordLacksDay(ym)) =>
        /\ ~call.res.ok
        /\ call.res.err[1] = "day out of range for "
        /\ "result" \notin DOMAIN call.res
        /\ \A ym \in NeededMonths(call.start, call.days) :
            /\ Cardinality(MonthEvents(ym, {"FetchCalendar"})) <= 1
            /\ (\E i \in MonthEvents(ym, {"LoadCalendar"}) : call.res.events[i].hit)
                    => MonthEvents(ym, {"FetchCalendar"}) = {}

\* February's cached record stops at the 27th, the range starts on the 28th and
\* goes on into March, whose record is complete: the error, and no request for
\* February
C26_Witness ==
    /\ CalendarCalled /\ call.days = 3 /\ ~call.res.ok
    /\ RecordLacksDay(<<2026, 2>>) /\ ~RecordLacksDay(<<2026, 3>>)
    /\ \E i \in MonthObtained(<<2026, 2>>) : call.res.events[i].ev = "LoadCalendar"
    /\ MonthObtained(<<2026, 3>>) # {}
    /\ call.res.err = <<"day out of range for ", <<2026, 2>>>>

\* C27: LoadCalendar after a SaveCalendar that succeeded returns, for the same
\* month and parameters, an entry with that Year and Month and the saved Days in
\* the same order, and is a miss for another year, month, latitude, longitude,
\* city, country, method or school; after a write that left an unparseable file,
\* or none, it is a miss
C27_CalendarRoundTrip ==
    call.fn = "LoadCalendar" =>
        IF call.saved.err = "" /\ call.ym = call.saved.ym /\ call.p = call.saved.p
        THEN /\ call.res # Nil
             /\ call.res.Year = call.ym[1] /\ call.res.Month = call.ym[2]
             /\ call.res.Days = call.saved.resp.Data
        ELSE call.res = Nil

\* February 2026 saved for London with method 2 and loaded back: the 28 days
C27_Witness ==
    /\ call.fn = "LoadCalendar" /\ call.saved.err = ""
    /\ call.ym = <<2026, 2>> /\ call.saved.ym = call.ym
    /\ call.p = BaseParams /\ call.saved.p = call.p
    /\ call.res # Nil /\ Len(call.res.Days) = 28
    /\ call.res.Days[28].Date.Readable = <<1>>

\* a completed start of a command: configuration merged, location resolved
Merged == call.fn = "effectiveConfig" /\ call.done

\* the location a source gives: coordinates when it has a latitude or longitude,
\* else a city with its country, else none (Nil)
LocationOf(lat, lon, city, country) ==
    IF lat # 0 \/ lon # 0
    THEN [Mode |-> "coords", Lat |-> lat, Lon |-> lon, City |-> "", Country |-> ""]
    ELSE IF city # "" /\ country # ""
    THEN [Mode |-> "city", Lat |-> 0, Lon |-> 0, City |-> city, Country |-> country]
    ELSE Nil

\* the location given on the command line: by the flags that were set
CliLocation ==
    LocationOf(IF "latitude" \in call.changed THEN call.flag.latitude ELSE 0,
               IF "longitude" \in call.changed THEN call.flag.longitude ELSE 0,
               IF "city" \in call.changed THEN call.flag.city ELSE "",
               IF "country" \in call.changed THEN call.flag.country ELSE "")

\* the location the config file holds
ConfigLocation ==
    IF call.loaded = Nil THEN Nil
    ELSE LocationOf(call.loaded.Latitude, call.loaded.Longitude, call.loaded.City,
                    call.loaded.Country)

\* the location the command uses, without its timezone hint
UsedLocation ==
    [Mode |-> call.res.loc.Mode, Lat |-> call.res.loc.Lat, Lon |-> call.res.loc.Lon,
     City |-> call.res.loc.City, Country |-> call.res.loc.Country]

\* C28: the location a command uses is the one given on the command line when
\* there is one, whatever the config file holds; else the one of the config file
\* when it holds one; else the cached geolocation when a fresh one is there; else
\* the detected one
C28_CliLocationFirst ==
    (Merged /\ call.changed # {"city"}) =>
        IF CliLocation # Nil
        THEN call.res.ok /\ UsedLocation = CliLocation
        ELSE IF ConfigLocation # Nil
        THEN call.res.ok /\ UsedLocation = ConfigLocation
        ELSE IF call.loaded # Nil /\ call.loaded.City # ""
        THEN ~call.res.ok
        ELSE IF call.c /\ LoadGeo(call.before, clock) # Nil
        THEN /\ call.res.ok
             /\ call.res.loc.Lat = LoadGeo(call.before, clock).Latitude
             /\ EventsOf(call.res, "Detect") = {}
        ELSE IF call.detected # Nil
        THEN call.res.ok /\ call.res.loc.Lat = call.detected.Latitude
        ELSE ~call.res.ok

----------------------------------------------------------------------------
(* invocations of fetchTimings racing on one cache file: LoadTimings reads   *)
(* the file with one os.ReadFile, SaveTimings writes it with os.WriteFile,   *)
(* which opens the file with O_TRUNC and then writes the data at offset 0    *)

\* the invocations, and the day, location and method they all ask for
Invocations == {"a", "b", "c"}

RaceKey ==
    [date |-> [ut |-> WritesClock, loc |-> "UTC"],
     loc |-> [Mode |-> "coords", Lat |-> LondonLat, Lon |-> LondonLon, City |-> "",
              Country |-> "", Timezone |-> ""],
     method |-> 2, school |-> 0]

\* the length of a file: of a marshalled entry it varies with the length of the
\* time strings (the other fields are the same for one key); a file that does
\* not parse carries its length
FileSize(content) ==
    IF content.kind = "json"
    THEN LET sum[n \in 0..Len(AllPrayerNames)] ==
                 IF n = 0 THEN 0
                 ELSE sum[n - 1] + Len(content.obj.timings[AllPrayerNames[n]])
         IN  sum[Len(AllPrayerNames)]
    ELSE content.size

\* c.LoadTimings in fetchTimings: a hit ends the invocation with the entry
RaceLoadTrustingFile(p) ==
    /\ call.run[p].pc = "load"
    /\ LET path == cacheKey(FormatDate(RaceKey.date), RaceKey.loc.Lat, RaceKey.loc.Lon,
                            RaceKey.loc.City, RaceKey.loc.Country, RaceKey.method,
                            RaceKey.school)
           seen == IF path \in DOMAIN files THEN files[path].kind ELSE "absent"
           entry == IF seen = "absent" THEN Nil
                    ELSE IF seen = "json" THEN UnmarshalPrayerEntry(files[path]).entry
                    ELSE [Date |-> <<>>, Method |-> 0, School |-> 0,
                          Timings |-> ZeroTimings, Meta |-> ZeroMeta]
       IN  call' = [call EXCEPT !.run[p] =
                       IF entry # Nil
                       THEN [@ EXCEPT !.pc = "done", !.seen = seen, !.entry = entry]
                       ELSE [@ EXCEPT !.pc = "fetch", !.seen = seen]]
    /\ UNCHANGED sysvars

RaceLoad(p) ==
    /\ call.run[p].pc = "load"
    /\ LET path == cacheKey(FormatDate(RaceKey.date), RaceKey.loc.Lat, RaceKey.loc.Lon,
                            RaceKey.loc.City, RaceKey.loc.Country, RaceKey.method,
                            RaceKey.school)
           seen == IF path \in DOMAIN files THEN files[path].kind ELSE "absent"
           entry == LoadTimings(files, RaceKey.date, RaceKey.loc.Lat, RaceKey.loc.Lon,
                                RaceKey.loc.City, RaceKey.loc.Country, RaceKey.method,
                                RaceKey.school)
       IN  call' = [call EXCEPT !.run[p] =
                       IF entry # Nil
                       THEN [@ EXCEPT !.pc = "done", !.seen = seen, !.entry = entry]
                       ELSE [@ EXCEPT !.pc = "fetch", !.seen = seen]]
    /\ UNCHANGED sysvars

\* the provider request after a miss; the answers of two requests may differ
RaceFetch(p, api) ==
    /\ call.run[p].pc = "fetch"
    /\ LET fetched == FetchFromApi(RaceKey.date, RaceKey.loc, RaceKey.method,
                                   RaceKey.school, api)
       IN  call' = [call EXCEPT !.run[p] =
                       IF fetched.ok
                       THEN [@ EXCEPT !.pc = "open", !.fetched = TRUE,
                                      !.resp = fetched.resp]
                       ELSE [@ EXCEPT !.pc = "done", !.fetched = TRUE,
                                      !.err = "API request failed"]]
    /\ UNCHANGED sysvars

\* os.WriteFile in SaveTimings, first half: the file is opened with O_TRUNC and
\* is empty from then on
RaceOpen(p) ==
    /\ call.run[p].pc = "open"
    /\ LET path == cacheKey(FormatDate(RaceKey.date), RaceKey.loc.Lat, RaceKey.loc.Lon,
                            RaceKey.loc.City, RaceKey.loc.Country, RaceKey.method,
                            RaceKey.school)
       IN  files' = [q \in DOMAIN files \cup {path} |->
                        IF q = path THEN [kind |-> "garbage", size |-> 0] ELSE files[q]]
    /\ call' = [call EXCEPT !.run[p].pc = "write"]
    /\ UNCHANGED <<clock, geoFile, pc, inv, trace, out, err>>

\* os.WriteFile in SaveTimings, second half: the data goes to offset 0; what
\* another writer has put beyond the end of the data stays in the file, which
\* then does not parse
RaceWrite(p) ==
    /\ call.run[p].pc = "write"
    /\ LET path == cacheKey(FormatDate(RaceKey.date), RaceKey.loc.Lat, RaceKey.loc.Lon,
                            RaceKey.loc.City, RaceKey.loc.Country, RaceKey.method,
                            RaceKey.school)
           data == MarshalPrayerEntry(SavedEntry(FormatDate(RaceKey.date), RaceKey.method,
                                                 RaceKey.school, call.run[p].resp))
       IN  files' = [files EXCEPT ![path] =
                        IF FileSize(files[path]) > FileSize(data)
                        THEN [kind |-> "garbage", size |-> FileSize(files[path])]
                        ELSE data]
    /\ call' = [call EXCEPT !.run[p].pc = "done"]
    /\ UNCHANGED <<clock, geoFile, pc, inv, trace, out, err>>

\* the cache file is absent or was saved by an earlier invocation; no invocation
\* has done anything yet
InitRace ==
    /\ clock = WritesClock
    /\ geoFile = NoFile
    /\ pc = "idle" /\ inv = NoInvocation /\ trace = <<>> /\ out = <<>> /\ err = ""
    /\ files \in {<<>>,
                  SaveTimings(<<>>, RaceKey.date, RaceKey.loc.Lat, RaceKey.loc.Lon,
                              RaceKey.loc.City, RaceKey.loc.Country, RaceKey.method,
                              RaceKey.school,
                              FetchFromApi(RaceKey.date, RaceKey.loc, RaceKey.method,
                                           RaceKey.school, "ok").resp, "ok")}
    /\ call = [fn |-> "race",
               initial |-> LoadTimings(files, RaceKey.date, RaceKey.loc.Lat,
                                       RaceKey.loc.Lon, RaceKey.loc.City,
                                       RaceKey.loc.Country, RaceKey.method,
                                       RaceKey.school),
               run |-> [p \in Invocations |->
                           [pc |-> "load", seen |-> "none", fetched |-> FALSE,
                            entry |-> Nil, resp |-> Nil, err |-> ""]]]

NextRace ==
    \/ \E p \in Invocations : RaceLoad(p)
    \/ \E p \in Invocations, api \in ApiOutcomes : RaceFetch(p, api)
    \/ \E p \in Invocations : RaceOpen(p)
    \/ \E p \in Invocations : RaceWrite(p)

SpecRace == InitRace /\ [][NextRace]_vars

\* the entries written so far: the one in the file at the start, and those of
\* the invocations that have written theirs
WrittenEntries ==
    {call.initial} \cup
    {SavedEntry(FormatDate(RaceKey.date), RaceKey.method, RaceKey.school,
                call.run[p].resp) :
        p \in {q \in Invocations : call.run[q].pc = "done" /\ call.run[q].resp # Nil}}

\* C30: with invocations reading and writing the same cache file at the same
\* time and no lock, a load is a miss or returns a complete entry that one of the
\* writers wrote; a load that finds the file torn (truncated and not yet written,
\* or one writer's data followed by the rest of another's) is a miss, and the
\* invocation goes on to request the timetable from the provider
C30_TornFileIsMissThenRefetch ==
    call.fn = "race" =>
        \A p \in Invocations :
            /\ call.run[p].entry # Nil =>
                /\ call.run[p].entry \in WrittenEntries
                /\ call.run[p].seen = "json"
            /\ call.run[p].seen = "garbage" =>
                /\ call.run[p].entry = Nil
                /\ call.run[p].pc \in {"fetch", "open", "write", "done"}
                /\ call.run[p].pc # "fetch" => call.run[p].fetched

\* two invocations have written answers of different lengths over each other and
\* left a file that does not parse; the third found it, missed and asked the
\* provider
C30_Witness ==
    /\ call.fn = "race"
    /\ call.run["a"].pc = "done" /\ call.run["a"].resp # Nil
    /\ call.run["b"].pc = "done" /\ call.run["b"].resp # Nil
    /\ call.run["a"].resp # call.run["b"].resp
    /\ call.run["c"].seen = "garbage" /\ call.run["c"].fetched
    /\ call.run["c"].pc = "done" /\ call.run["c"].resp # Nil
    /\ \E path \in DOMAIN files : files[path].kind = "garbage" /\ files[path].size > 0

----------------------------------------------------------------------------
(* a miss on a stale or unparseable file, the fetch, and the next load      *)

\* the cache file of a fetchTimings call
FetchPath ==
    cacheKey(FormatDate(call.date), call.loc.Lat, call.loc.Lon, call.loc.City,
             call.loc.Country, call.method, call.school)

\* the file a successful SaveTimings of the call's provider response leaves
FreshFile ==
    MarshalPrayerEntry(SavedEntry(FormatDate(call.date), call.method, call.school,
        FetchFromApi(call.date, call.loc, call.method, call.school, call.api).resp))

\* a completed fetchTimings whose LoadTimings missed on a file that exists (it
\* does not parse, or it parses with another date) and whose provider fetch
\* succeeded
MissThenFetched ==
    /\ call.fn = "fetchTimings" /\ call.done /\ call.c
    /\ FetchPath \in DOMAIN call.before
    /\ LoadTimings(call.before, call.date, call.loc.Lat, call.loc.Lon, call.loc.City,
                   call.loc.Country, call.method, call.school) = Nil
    /\ call.api # "fail"

\* C31 as stated: after LoadTimings missed on a stale or unparseable file and the
\* provider fetch succeeded, the next LoadTimings with the same parameters is a
\* hit that returns the fresh data
C31_NextLoadAlwaysHitsFresh ==
    (MissThenFetched /\ "again" \in DOMAIN call) =>
        /\ call.again # Nil
        /\ call.again.Timings = FreshFile.obj.timings

\* C31, amended: after such a miss and a successful fetch the call returns the
\* provider's data, never the stored record; the file afterwards is the fresh
\* entry when the write succeeds, the old file when the write fails and a torn
\* file when it breaks off, never the old record changed in place; and the next
\* LoadTimings with the same parameters is a hit with the fresh data when the
\* write succeeded and a miss otherwise
C31_OverwriteWhenWriteSucceeds ==
    MissThenFetched =>
        /\ call.res.ok
        /\ call.res.result.Timings = FreshFile.obj.timings
        /\ call.res.result.Meta = FreshFile.obj.meta
        /\ files[FetchPath] = CASE call.wr = "ok" -> FreshFile
                                [] call.wr = "fail" -> call.before[FetchPath]
                                [] OTHER -> Garbage
        /\ "again" \in DOMAIN call =>
              IF call.wr = "ok"
              THEN /\ call.again # Nil
                   /\ call.again.Date = FormatDate(call.date)
                   /\ call.again.Timings = FreshFile.obj.timings
                   /\ call.again.Meta = FreshFile.obj.meta
              ELSE call.again = Nil

\* the file held yesterday's entry, the fetch and the write succeeded, and the
\* next load is a hit with today's timetable, which differs from the stored one
C31_Witness ==
    /\ MissThenFetched
    /\ call.before[FetchPath].kind = "json"
    /\ call.before[FetchPath].obj.date = FormatDate(AddDays(call.date, -1))
    /\ call.wr = "ok"
    /\ "again" \in DOMAIN call
    /\ call.again # Nil
    /\ call.again.Timings = ProviderTimings(FormatDate(call.date), call.api)
    /\ call.again.Timings # call.before[FetchPath].obj.timings

----------------------------------------------------------------------------
(* loads on every kind of cache directory                                  *)

\* the directory before a load: the timetable file of a location absent, torn,
\* holding the entry of the day before or holding today's; geolocation.json
\* absent, unparseable, an hour old or two days old; call.loc is the location
\* LoadTimings is called for, today and tomorrow
InitLoads ==
    /\ clock = WritesClock
    /\ pc = "idle" /\ inv = NoInvocation /\ trace = <<>> /\ out = <<>> /\ err = ""
    /\ call \in [fn : {"none"}, loc : ResolvedLocations]
    /\ \E l \in ResolvedLocations :
           files \in TimingsDirsBefore([date |-> [ut |-> WritesClock, loc |-> "UTC"],
                                       loc |-> l, method |-> 2, school |-> 0])
    /\ geoFile \in GeoFilesBefore

NextLoads ==
    \/ \E d \in {0, 1} :
           /\ call.fn = "none"
           /\ CallLoadTimings([date |-> [ut |-> WritesClock + d * MinutesPerDay,
                                         loc |-> "UTC"],
                               lat |-> call.loc.Lat, lon |-> call.loc.Lon,
                               city |-> call.loc.City, country |-> call.loc.Country,
                               method |-> 2, school |-> 0])
    \/ CallLoadGeo

SpecLoads == InitLoads /\ [][NextLoads]_vars

\* C32: a step of LoadTimings or LoadGeo leaves every file of the cache
\* directory as it was, whether the load hits or misses on an absent, unparseable,
\* stale or expired file
C32_LoadsLeaveDirectoryUnchanged ==
    [][call'.fn \in {"LoadTimings", "LoadGeo"} => (files' = files /\ geoFile' = geoFile)]_vars

\* LoadTimings has missed on a file that holds another day's entry, next to an
\* expired geolocation.json, and both files are there
C32_Witness ==
    /\ call.fn = "LoadTimings"
    /\ call.res = Nil
    /\ Parses(call.p)
    /\ StoredFor(call.p).Date = FormatDate(AddDays(call.p.date, -1))
    /\ GeoParses
    /\ clock - GeoStored.CachedAt > 24 * MinutesPerHour
    /\ LoadGeo(geoFile, clock) = Nil

----------------------------------------------------------------------------
(* a failed fetch of today's timetable                                     *)

\* the step is the Today step of a run and ends with a failed provider request
TodayFetchFails ==
    /\ pc = "today"
    /\ Len(trace') > Len(trace)
    /\ trace'[Len(trace')].ev = "Fetch"
    /\ ~trace'[Len(trace')].ok

\* C33: when today's timetable is not in the cache and the provider request
\* fails, the run ends there with that error and without output, and no event of
\* the run concerns tomorrow; a run that ends in DegradedFallback has obtained
\* today's timetable and failed to fetch tomorrow's
C33_TodayFetchFailureIsReturned ==
    [][/\ TodayFetchFails =>
             /\ pc' = "done"
             /\ inv'.state = "Error"
             /\ err' = "API request failed"
             /\ out' = <<>>
             /\ inv'.tomorrow = Nil
             /\ \A i \in 1..Len(trace') :
                    trace'[i].ev \in {"LoadTimings", "Fetch", "SaveTimings"}
                        => trace'[i].date = FormatDate(inv.now)
             /\ files' = files
       /\ (inv'.cmd = "next" /\ inv'.state = "DegradedFallback" /\ inv.state = "") =>
             /\ pc = "rollover"
             /\ Len(inv.prayers) > 0
             /\ trace'[Len(trace')].ev = "Fetch"
             /\ ~trace'[Len(trace')].ok
             /\ trace'[Len(trace')].date = FormatDate(AddDays(inv.now, 1))]_vars

\* a run whose lookup of today missed in the cache and whose provider request
\* failed has ended with the error and without output
C33_Witness ==
    /\ pc = "done"
    /\ inv.cmd = "next"
    /\ inv.state = "Error"
    /\ err = "API request failed"
    /\ out = <<>>
    /\ inv.tomorrow = Nil
    /\ Len(trace) >= 2
    /\ trace[Len(trace) - 1].ev = "LoadTimings"
    /\ ~trace[Len(trace) - 1].hit
    /\ trace[Len(trace)].ev = "Fetch"
    /\ ~trace[Len(trace)].ok

----------------------------------------------------------------------------
(* the dates of the two lookups                                            *)

\* the events the step adds to the trace all concern the date of t
NewEventsFor(t) ==
    \A i \in (Len(trace) + 1)..Len(trace') :
        trace'[i].ev \in {"LoadTimings", "Fetch", "SaveTimings"}
            => trace'[i].date = FormatDate(t)

\* C34: the timetable parsed as today's was looked up, in the cache and at the
\* provider, for the calendar date of now in the resolved timezone, and the
\* timetable of Rollover for the date after it, also when the machine's local
\* date is another one
C34_LookupsForZoneDateAndNext ==
    [][/\ (pc = "today" /\ pc' \in {"found", "rollover"})
             => NewEventsFor(TimeIn(inv.now, inv'.tzLoc))
       /\ (pc = "rollover" /\ pc' # "rollover")
             => NewEventsFor(AddDays(TimeIn(inv.now, inv.tzLoc), 1))]_vars

----------------------------------------------------------------------------
(* the prayer reported as next                                             *)

\* the entries of a parsed list that are strictly after now
Upcoming(prayers, now) == {prayers[i] : i \in {j \in 1..Len(prayers) : After(prayers[j].Time, now)}}

\* C35: the prayer about to be printed is the earliest of today's selected
\* events that are strictly after now, or, when none of today's remains, the
\* earliest of tomorrow's, whatever the selected subset and its order
C35_NextIsEarliestUpcoming ==
    (inv.cmd = "next" /\ pc = "found") =>
        LET candidates == IF Upcoming(inv.prayers, inv.now) # {}
                          THEN Upcoming(inv.prayers, inv.now)
                          ELSE Upcoming(inv.tomorrowPrayers, inv.now)
        IN  /\ inv.next \in candidates
            /\ \A q \in candidates : inv.next.Time.ut <= q.Time.ut

----------------------------------------------------------------------------
(* the fields of a template                                                *)

\* FormatOutput was called with the template that prints all six fields,
\* "{{.Name}}|{{.ShortName}}|{{.Time}}|{{.Remaining}}|{{.Hours}}|{{.Minutes}}"
AllFieldsPrinted ==
    /\ Formatted
    /\ Len(call.mode) = 23
    /\ Len(call.res) = 11

\* C36: the fields a template sees agree with each other for every prayer time
\* and every now, a prayer time before now included: Hours is not negative,
\* Minutes is between 0 and 59, and Remaining is what FormatRemaining prints for
\* Hours hours and Minutes minutes
C36_TemplateFieldsConsistent ==
    AllFieldsPrinted =>
        LET remaining == call.res[7]
            hours == call.res[9]
            minutes == call.res[11]
        IN  /\ hours >= 0
            /\ minutes >= 0 /\ minutes < 60
            /\ remaining = FormatRemaining(
                   [sec |-> (hours * MinutesPerHour + minutes) * SecondsPerMinute,
                    ns |-> 0])

----------------------------------------------------------------------------
(* the list ParseTimings returns                                           *)

\* C37: a list returned by ParseTimings has one Prayer for each entry of
\* selected, the i-th named selected[i], in the given location and on the
\* calendar day of the given date; when a selected name is none of the 11 event
\* names the call returns an error and no list
C37_OnePrayerPerSelectedName ==
    ParsedTimings =>
        /\ call.res.ok =>
              /\ Len(call.res.prayers) = Len(call.selected)
              /\ \A i \in 1..Len(call.selected) :
                     /\ call.res.prayers[i].Name = call.selected[i]
                     /\ call.res.prayers[i].Time.loc = call.loc
                     /\ DayOf(call.res.prayers[i].Time) = DayOf(call.date)
        /\ (\E i \in 1..Len(call.selected) : call.selected[i] \notin KnownNames) =>
              /\ ~call.res.ok
              /\ call.res.err = "unknown prayer name"
                    \/ \E j \in 1..Len(call.selected) :
                           /\ call.selected[j] \in KnownNames
                           /\ ~parseTimeStr(call.timings[call.selected[j]], call.date,
                                            call.loc).ok
              /\ "prayers" \notin DOMAIN call.res

\* a selection that names an event twice and out of chronological order was
\* parsed for a date given in another zone than the location
C37_Witness ==
    /\ ParsedTimings
    /\ call.selected = <<"Isha", "Fajr", "Isha">>
    /\ call.date.loc # call.loc
    /\ call.res.ok
    /\ Len(call.res.prayers) = 3
    /\ call.res.prayers[2].Name = "Fajr"

----------------------------------------------------------------------------
(* what the cache holds after failed and successful fetches                *)

\* the step issues a provider request that fails
FetchFailsInStep ==
    \E i \in (Len(trace) + 1)..Len(trace') : trace'[i].ev = "Fetch" /\ ~trace'[i].ok

\* the file at path holds the entry of a successful provider response for the
\* date and the location of the key that names the file
HoldsProviderData(fs, path) ==
    \E cfg \in RunConfigs, d \in 0..MaxRunDays, api \in ApiOutcomes \ {"fail"} :
        LET date == UTCTime(d * MinutesPerDay)
            r == resolveLocation(cfg.Latitude, cfg.Longitude, cfg.City, cfg.Country,
                                 cfg.CacheOK, NoFile, 0, Nil, "ok")
            loc == r.loc
        IN  /\ r.ok
            /\ path = cacheKey(FormatDate(date), loc.Lat, loc.Lon, loc.City, loc.Country,
                               cfg.Method, cfg.School)
            /\ fs[path] = MarshalPrayerEntry(
                   SavedEntry(FormatDate(date), cfg.Method, cfg.School,
                              FetchFromApi(date, loc, cfg.Method, cfg.School, api).resp))

\* C38: a step in which a provider request fails leaves the cache directory as
\* it was, and after every step each timetable entry of the cache is the entry
\* of a successful provider response for the date, location, method and school
\* of its key
C38_FailedFetchWritesNothing ==
    [][/\ FetchFailsInStep => files' = files
       /\ \A path \in DOMAIN files' :
              files'[path].kind = "json" => HoldsProviderData(files', path)]_vars

\* a run has saved today's timetable and failed to fetch tomorrow's, and the
\* cache holds today's entry and nothing for tomorrow
C38_Witness ==
    /\ pc = "done"
    /\ inv.cmd = "next"
    /\ inv.state = "DegradedFallback"
    /\ inv.cfg.CacheOK
    /\ trace[Len(trace)].ev = "Fetch" /\ ~trace[Len(trace)].ok
    /\ \E i \in 1..Len(trace) : trace[i].ev = "SaveTimings" /\ trace[i].outcome = "ok"
    /\ Cardinality(DOMAIN files) = 1
    /\ \A path \in DOMAIN files : path[1] = FormatDate(inv.now) /\ files[path].kind = "json"

----------------------------------------------------------------------------
(* termination of a resolution                                             *)

\* one run of the next command on an empty cache directory, with the location
\* given or detected, up to the return of runNext; the machine is in UTC, so
\* that tomorrow's lookup is never answered by the entry today's lookup saved
InitOnce == EmptyDir /\ clock \in ClockValues \cup DetectClock /\ call = NoCall

OnceConfigs == {cfg \in RunConfigs \cup DetectConfigs : cfg.Local = "UTC"}

StartOnce ==
    \E cfg \in OnceConfigs, detected \in DetectOutcomes, wr \in WriteOutcomes :
        Start(cfg, detected, wr)

RunOnce ==
    \/ \E api \in ApiOutcomes, wr \in WriteOutcomes : Today(api, wr)
    \/ \E api \in ApiOutcomes, wr \in WriteOutcomes : Rollover(api, wr)
    \/ Found

NextOnce == StartOnce \/ RunOnce

\* runNext is sequential code whose calls all return, the HTTP clients of the
\* provider and of the geolocation service having timeouts, so a run does not
\* stay at a step forever. A step is enabled by its pc alone, whatever the
\* outcome of its calls, so the condition for a step is stated on the step that
\* has the outcome decided soonest, a failed request
SpecOnce ==
    /\ InitOnce /\ [][NextOnce]_vars
    /\ WF_vars(Today("fail", "ok"))
    /\ WF_vars(Rollover("fail", "ok"))
    /\ WF_vars(Found)

\* the number of events of a kind in the trace of the run
Count(kind) == Cardinality({i \in 1..Len(trace) : trace[i].ev = kind})

\* what a run has done so far: one location resolution, then one lookup of
\* today's timetable, then one of tomorrow's only when no event of today
\* remains, nothing dated after tomorrow, and nothing after a failed request
WithinTwoLookups ==
    inv.cmd = "next" =>
        /\ Count("LoadGeo") <= 1 /\ Count("Detect") <= 1 /\ Count("SaveGeo") <= 1
        /\ Count("LoadTimings") <= 2 /\ Count("Fetch") <= 2 /\ Count("SaveTimings") <= 2
        /\ inv.tomorrow = Nil =>
              Count("LoadTimings") <= 1 /\ Count("Fetch") <= 1 /\ Count("SaveTimings") <= 1
        /\ inv.tomorrow # Nil => AllAtOrBefore(inv.prayers, inv.now)
        /\ \A i \in 1..Len(trace) :
              /\ trace[i].ev \in {"LoadTimings", "Fetch", "SaveTimings"}
                    => trace[i].date[1] <= DayOf(inv.now) + 1
              /\ (trace[i].ev \in {"Fetch", "Detect"} /\ ~trace[i].ok) => i = Len(trace)

\* the run has ended in one of the four ways, with output or with an error
EndedInOneTerminal ==
    pc = "done" =>
        /\ inv.state \in {"Found", "DegradedFallback", "Unresolvable", "Error"}
        /\ inv.state \in {"Found", "DegradedFallback"} <=> (out # <<>> /\ err = "")
        /\ inv.state \in {"Unresolvable", "Error"} <=> (out = <<>> /\ err # "")

\* C39: every started resolution ends, in Found, DegradedFallback, Unresolvable
\* or with a propagated error, after one location resolution and at most two
\* timetable lookups, the second one only when none of today's events remains;
\* it looks up nothing after tomorrow and issues no request after a failed one
C39_TerminatesWithinTwoLookups ==
    /\ (pc # "idle") ~> (pc = "done")
    /\ [](EndedInOneTerminal /\ WithinTwoLookups)

\* a run that detected the location, looked up today and then tomorrow, and
\* ended in Found
C39_Witness ==
    /\ pc = "done"
    /\ inv.cmd = "next"
    /\ inv.state = "Found"
    /\ inv.tomorrow # Nil
    /\ Count("Detect") = 1
    /\ Count("Fetch") = 2

----------------------------------------------------------------------------
(* one kind of location per invocation                                     *)

\* a resolveLocation call has returned a location
Returned == call.fn = "resolveLocation" /\ call.done /\ call.res.ok

\* the fields of a location that are not of its mode are the Go zero values
OneKind(loc) ==
    \/ loc.Mode = "coords" /\ loc.City = "" /\ loc.Country = ""
    \/ loc.Mode = "city" /\ loc.Lat = 0 /\ loc.Lon = 0
                         /\ loc.City # "" /\ loc.Country # ""

\* the cache key and the provider request that fetchTimings builds for loc are
\* those of the coordinates alone or of the place alone
BuiltFromOneKind(loc) ==
    LET date == [ut |-> clock, loc |-> "UTC"]
        key == cacheKey(FormatDate(date), loc.Lat, loc.Lon, loc.City, loc.Country, 2, 0)
        r == fetchTimings(<<>>, date, loc, 2, 0, TRUE, "ok", "ok")
    IN  /\ DOMAIN r.fs = {key}
        /\ IF loc.Mode = "city"
           THEN /\ key = cacheKey(FormatDate(date), 0, 0, loc.City, loc.Country, 2, 0)
                /\ r.result.Meta
                     = FetchByCity(date, loc.City, loc.Country, 2, 0, "ok").resp.Data.Meta
           ELSE /\ key = cacheKey(FormatDate(date), loc.Lat, loc.Lon, "", "", 2, 0)
                /\ r.result.Meta
                     = FetchByCoordinates(date, loc.Lat, loc.Lon, 2, 0, "ok").resp.Data.Meta

\* C40: a location returned by resolveLocation is of one kind: in coordinates
\* mode its city and country are empty, in city mode its latitude and longitude
\* are zero and city and country are set; the cache key and the provider
\* request made for it are built from the fields of that kind alone
C40_ResolvedLocationOfOneKind ==
    Returned => OneKind(call.res.loc) /\ BuiltFromOneKind(call.res.loc)

\* both kinds are returned: a city with its country, no coordinates given; and
\* coordinates given together with a city and country
C40_Witness ==
    /\ Returned
    /\ call.city # "" /\ call.country # ""
    /\ \/ call.res.loc.Mode = "city"
       \/ call.res.loc.Mode = "coords" /\ call.lat # 0

====
